---------------------------- MODULE Spec2Model ----------------------------
(***************************************************************************)
(* Model of the Astrometry.net orchestration clients of the repository:    *)
(*   - client.py: Client.send_request (with the encoding of the request),  *)
(*     Client.login and the calls built on them, and the run_client script *)
(*     run once per image by __main__ or with other options;               *)
(*   - astrometry_solver.py: AstrometrySolver and the batch loop of main.  *)
(*                                                                         *)
(* JSON scalars are strings ("true", "false", "None" for null/None); a     *)
(* JSON object or Python dict is a function from its present keys.  One    *)
(* HTTP exchange is one step; the remote service is the environment and    *)
(* its response is drawn from the set of bodies of the endpoint.           *)
(***************************************************************************)
EXTENDS Integers, Sequences, FiniteSets, TLC

(* ------------------------------ bounds -------------------------------- *)

\* Polls of one status endpoint per image (the loops are unbounded in the code).
MaxPolls == 3

\* Longest job-id list a submission response carries.
MaxJobs == 2

(* ------------------------- program constants -------------------------- *)

\* images_to_solve has two entries; __main__ of client.py calls run_client twice.
NumImages == 2

Images == 1 .. NumImages

\* Client / AstrometrySolver instances.
Inst == {1, 2}

(* --------------------------- Python values ---------------------------- *)

None == "None"

JTrue == "true"

JFalse == "false"

\* Python truthiness of a scalar: None, "" and False are falsy.
truthy(v) == v \notin {None, "", JFalse}

EmptyDict == [k \in {} |-> None]

\* d.get(k, default)
get(d, k, default) == IF k \in DOMAIN d THEN d[k] ELSE default

\* d.update({k: v}) : the dict after the in-place update
update(d, k, v) == [x \in (DOMAIN d) \cup {k} |-> IF x = k THEN v ELSE d[x]]

(* ------------------------------ service ------------------------------- *)

Tokens == {"s1", "s2"}

JobIds == {"j7", "j8"}

SubIds == {"sub11"}

\* Job-id lists: entries may be null.
JobLists == UNION {[1 .. n -> JobIds \cup {None}] : n \in 0 .. MaxJobs}

ErrorBodies ==
    {("status" :> "error")}
      \cup {("status" :> "error") @@ ("errormessage" :> "bad request")}

LoginBodies ==
    {("status" :> "success")}
      \cup {("status" :> "success") @@ ("session" :> s) : s \in Tokens \cup {"", None}}
      \cup ErrorBodies

UploadBodies ==
    {EmptyDict, ("status" :> "success"), ("status" :> "fail")}
      \cup {("status" :> "success") @@ ("subid" :> s) : s \in SubIds}
      \cup ErrorBodies

SubBodies ==
    {pf @@ jl : pf \in {EmptyDict} \cup {("processing_finished" :> b) : b \in {JTrue, JFalse}},
                jl \in {EmptyDict} \cup {("jobs" :> l) : l \in JobLists}}
      \cup ErrorBodies

JobBodies ==
    {EmptyDict}
      \cup {("status" :> s) : s \in {"queued", "solving", "success", "failure"}}
      \cup ErrorBodies

ResultBodies ==
    {("ra" :> "83.8"), ("status" :> "success") @@ ("jobs" :> <<"j7">>)}
      \cup ErrorBodies

\* An HTTP response: status code, whether the body parses as JSON, the parsed
\* object.  A 200 carries any body of the endpoint or text that is not JSON; a
\* 500 carries an error page that is not JSON, or a JSON error object.
Responses(bodies) ==
    {[status_code |-> 200, parses |-> TRUE, body |-> b] : b \in bodies}
      \cup {[status_code |-> 500, parses |-> TRUE, body |-> b] : b \in ErrorBodies}
      \cup {[status_code |-> c, parses |-> FALSE, body |-> EmptyDict] : c \in {200, 500}}

NoResp == [status_code |-> 0, parses |-> FALSE, body |-> EmptyDict]

(* ------------------------ results of one call ------------------------- *)

\* What a call did: returned a value (a dict, or None) or raised.
Return(d) ==
    [outcome |-> "return", none |-> FALSE, value |-> d, exc |-> None, msg |-> None,
     err_html |-> FALSE]

ReturnNone ==
    [outcome |-> "return", none |-> TRUE, value |-> EmptyDict, exc |-> None, msg |-> None,
     err_html |-> FALSE]

Raise(e, m) ==
    [outcome |-> "raise", none |-> FALSE, value |-> EmptyDict, exc |-> e, msg |-> m,
     err_html |-> FALSE]

NoCall == [outcome |-> "none", none |-> FALSE, value |-> EmptyDict, exc |-> None,
           msg |-> None, err_html |-> FALSE]

(* ----------------------------- client.py ------------------------------ *)

\* json2python: json.loads, or None when the text does not parse.
json2python(resp) ==
    IF resp.parses THEN [none |-> FALSE, value |-> resp.body]
    ELSE [none |-> TRUE, value |-> EmptyDict]

\* Client.send_request, lines 63-64: the session is written into the args dict
\* object itself (the caller's dict, or the shared default of the parameter).
inject_session(sess, args) ==
    IF sess # None THEN update(args, "session", sess) ELSE args

\* Client.send_request, lines 106-124: what the call does with the response.
\* A non-2xx status makes urlopen raise HTTPError, which is caught: the body
\* goes to err.html and the function falls off its end (returns None).
send_request_reply(resp) ==
    IF resp.status_code # 200
    THEN [ReturnNone EXCEPT !.err_html = TRUE]
    ELSE LET result == json2python(resp) IN
         IF result.none
         THEN Raise("AttributeError", "NoneType has no attribute get")
         ELSE IF get(result.value, "status", None) = "error"
              THEN LET errstr == get(result.value, "errormessage", "(none)") IN
                   Raise("RequestError", errstr)
              ELSE Return(result.value)

\* Client.send_request: the args dict as it was passed and as it is after the
\* call, the JSON sent, the outcome.
send_request(sess, args, resp) ==
    LET args1 == inject_session(sess, args) IN
    [passed |-> args, args |-> args1, json |-> args1, call |-> send_request_reply(resp)]

ApiKey == "apikey0"

\* Client.login: the outcome of the method and the session stored afterwards.
Client_login(sess, resp) ==
    LET r == send_request(sess, ("apikey" :> ApiKey), resp) IN
    IF r.call.outcome = "raise"
    THEN [sr |-> r, call |-> r.call, session |-> sess]
    ELSE IF r.call.none
         THEN [sr |-> r, call |-> Raise("AttributeError", "NoneType has no attribute get"),
               session |-> sess]
         ELSE LET s == get(r.call.value, "session", None) IN
              IF ~truthy(s)
              THEN [sr |-> r, call |-> Raise("RequestError", "no session in result"),
                    session |-> sess]
              ELSE [sr |-> r, call |-> ReturnNone, session |-> s]

\* Client._get_upload_args with the three options run_client always passes
\* (ClientRunnerOptions: public 'y', allow_mod 'd', allow_commercial 'd').
get_upload_args ==
    ("allow_commercial_use" :> "d") @@ ("allow_modifications" :> "d")
      @@ ("publicly_visible" :> "y")

\* The for-loop of run_client, lines 352-354: j ends as the first entry that is
\* not None, or as the last entry (None) when there is none.
first_job(jobs) ==
    IF \E i \in 1 .. Len(jobs) : jobs[i] # None
    THEN jobs[CHOOSE i \in 1 .. Len(jobs) :
                /\ jobs[i] # None
                /\ \A k \in 1 .. (i - 1) : jobs[k] = None]
    ELSE None

\* run_client, lines 350-359: the job id selected from a submission status, or
\* None when the loop sleeps and polls again.  processing_finished is not read.
run_client_select(stat) ==
    LET jobs == get(stat, "jobs", <<>>) IN
    IF Len(jobs) # 0 THEN first_job(jobs) ELSE None

\* run_client, lines 364-370: break on success, sys.exit(-1) on failure,
\* otherwise sleep and poll again.
run_client_job(stat) ==
    LET s == get(stat, "status", "") IN
    IF s = "success" THEN "break"
    ELSE IF s = "failure" THEN "sys.exit"
    ELSE "sleep"

(* ---------------- client.py: the encoding of a request ---------------- *)

\* A text is a sequence of tokens: a token is a run of characters that every
\* encoding below copies as they are (letters, digits, '_', '-', '.'), or one
\* character that some encoding treats specially.

\* The URLs given to Client.url_upload.
Urls == {"http://h/i", "http://h/q?a=b&c=d+e", "a \"b\" 5%\\"}

\* The characters of the strings that are more than one token.
CharsOf ==
    ("http://h/i" :> <<"http", ":", "/", "/", "h", "/", "i">>)
      @@ ("http://h/q?a=b&c=d+e" :>
            <<"http", ":", "/", "/", "h", "/", "q", "?", "a", "=", "b", "&", "c", "=",
              "d", "+", "e">>)
      @@ ("a \"b\" 5%\\" :> <<"a", " ", "\"", "b", "\"", " ", "5", "%", "\\">>)

chars(v) == IF v \in DOMAIN CharsOf THEN CharsOf[v] ELSE <<v>>

RECURSIVE concat(_)
\* ''.join(texts)
concat(texts) == IF texts = <<>> THEN <<>> ELSE Head(texts) \o concat(Tail(texts))

\* json.dumps of a string: quotes around it, '"' and '\' escaped by '\'.
json_string(v) ==
    LET c == chars(v) IN
    <<"\"">>
      \o concat([i \in 1 .. Len(c) |-> IF c[i] \in {"\"", "\\"} THEN <<"\\", c[i]>>
                                        ELSE <<c[i]>>])
      \o <<"\"">>

\* The keys of the args dicts, in the order the code inserts them (the session
\* is added last, by send_request).
KeyOrder ==
    <<"apikey", "url", "allow_commercial_use", "allow_modifications", "publicly_visible",
      "session">>

\* python2json = json.dumps of a dict of strings: {"k": "v", "k": "v"}.
python2json(d) ==
    LET keys == SelectSeq(KeyOrder, LAMBDA k : k \in DOMAIN d)
        member(i) == (IF i = 1 THEN <<>> ELSE <<",", " ">>)
                       \o json_string(keys[i]) \o <<":", " ">> \o json_string(d[keys[i]])
    IN <<"{">> \o concat([i \in 1 .. Len(keys) |-> member(i)]) \o <<"}">>

\* The escapes of urllib.parse.quote_plus: a space becomes '+', every other
\* character outside letters, digits and '_.-~' becomes %XX.
Pct ==
    (" " :> "+") @@ ("\"" :> "%22") @@ ("\\" :> "%5C") @@ ("{" :> "%7B") @@ ("}" :> "%7D")
      @@ (":" :> "%3A") @@ ("," :> "%2C") @@ ("&" :> "%26") @@ ("=" :> "%3D")
      @@ ("+" :> "%2B") @@ ("%" :> "%25") @@ ("/" :> "%2F") @@ ("?" :> "%3F")

\* quote_plus that leaves '+' as it is.
quote_plus_keeps_plus(text) ==
    [i \in 1 .. Len(text) |->
        IF text[i] \in DOMAIN Pct /\ text[i] # "+" THEN Pct[text[i]] ELSE text[i]]

quote_plus(text) ==
    [i \in 1 .. Len(text) |-> IF text[i] \in DOMAIN Pct THEN Pct[text[i]] ELSE text[i]]

\* urlencode({'request-json': json}), lines 97-99: name=value, both quoted.
urlencode(json) == quote_plus(<<"request-json">>) \o <<"=">> \o quote_plus(json)

\* The Content-Type header of a request: none, or multipart with its boundary.
NoHeaders == [content_type |-> None, boundary |-> None]

\* send_request, lines 95-102: the request without a file.
plain_request(args) == [headers |-> NoHeaders, data |-> urlencode(python2json(args))]

\* random.choice('0123456789') 19 times, line 74: any string of 19 digits.
BoundaryKeys == {"0000000000000000000", "3141592653589793238"}

\* '===============%s==' % boundary_key, line 75.
boundary_of ==
    ("0000000000000000000" :> "===============0000000000000000000==")
      @@ ("3141592653589793238" :> "===============3141592653589793238==")

\* No file: file_args is None.
NoFile == [fn |-> None, bytes |-> <<>>]

\* The bytes of the files uploaded, as texts: plain data, data that contains a
\* line '--boundary' or '--boundary--' of some boundary, data that contains the
\* text of a boundary inside a line.
Payloads ==
    {<<>>, <<"x", "\n", "y">>,
     <<"x", "\n", "--", boundary_of["0000000000000000000"], "\n", "y">>,
     <<"x", "\n", "--", boundary_of["0000000000000000000"], "--", "\n", "y">>,
     <<"x", boundary_of["3141592653589793238"], "y">>}

\* The files uploaded by the calls made side by side.
SomePayloads ==
    {<<"x", "\n", "y">>,
     <<"x", "\n", "--", boundary_of["0000000000000000000"], "\n", "y">>}

FileNames == {"refined_image.png"}

\* send_request, lines 72-93: the multipart request with the file.
multipart_request(args, file_args, boundary_key) ==
    LET json == python2json(args)
        boundary == boundary_of[boundary_key]
        data_pre ==
            <<"--", boundary, "\n",
              "Content-Type: text/plain", "\r\n",
              "MIME-Version: 1.0", "\r\n",
              "Content-disposition: form-data; name=", "\"", "request-json", "\"", "\r\n",
              "\r\n">>
              \o json
              \o <<"\n",
                   "--", boundary, "\n",
                   "Content-Type: application/octet-stream", "\r\n",
                   "MIME-Version: 1.0", "\r\n",
                   "Content-disposition: form-data; name=", "\"", "file", "\"",
                   "; filename=", "\"", file_args.fn, "\"", "\r\n",
                   "\r\n">>
        data_post == <<"\n", "--", boundary, "--", "\n">>
    IN [headers |-> [content_type |-> "multipart/form-data", boundary |-> boundary],
        data |-> data_pre \o file_args.bytes \o data_post]

\* send_request, lines 66-104: the Request object built from the args (after
\* the session went into them), the file and the random boundary key.
encode(args, file_args, boundary_key) ==
    IF file_args # NoFile THEN multipart_request(args, file_args, boundary_key)
    ELSE plain_request(args)

NoRequest == [headers |-> NoHeaders, data |-> <<>>]

(* ------------------------ astrometry_solver.py ------------------------ *)

\* response.json() of the requests library: raises when the body is not JSON.
response_json(resp) ==
    IF resp.parses THEN Return(resp.body)
    ELSE Raise("JSONDecodeError", "Expecting value")

\* wait_for_submission returning any non-empty list, its first entry unread.
wait_for_submission_first_unread(resp) ==
    LET r == response_json(resp) IN
    IF r.outcome = "raise" THEN [kind |-> "raise", job_ids |-> <<>>, call |-> r]
    ELSE IF truthy(get(r.value, "processing_finished", None))
         THEN LET job_ids == get(r.value, "jobs", <<>>) IN
              [kind |-> "return", job_ids |-> job_ids, call |-> r]
         ELSE [kind |-> "sleep", job_ids |-> <<>>, call |-> r]

\* AstrometrySolver.wait_for_submission, one iteration of the loop: returns the
\* job list, returns [] (finished, first entry missing or null), or sleeps.
wait_for_submission(resp) ==
    LET r == response_json(resp) IN
    IF r.outcome = "raise" THEN [kind |-> "raise", job_ids |-> <<>>, call |-> r]
    ELSE IF truthy(get(r.value, "processing_finished", None))
         THEN LET job_ids == get(r.value, "jobs", <<>>) IN
              IF job_ids # <<>> /\ job_ids[1] # None
              THEN [kind |-> "return", job_ids |-> job_ids, call |-> r]
              ELSE [kind |-> "return", job_ids |-> <<>>, call |-> r]
         ELSE [kind |-> "sleep", job_ids |-> <<>>, call |-> r]

\* wait_for_job without its 'failure' branch: a failed job is polled again.
wait_for_job_no_failure(resp) ==
    LET r == response_json(resp) IN
    IF r.outcome = "raise" THEN [kind |-> "raise", call |-> r]
    ELSE IF get(r.value, "status", None) = "success" THEN [kind |-> "True", call |-> r]
         ELSE [kind |-> "sleep", call |-> r]

\* AstrometrySolver.wait_for_job, one iteration: True, False, or sleep.
wait_for_job(resp) ==
    LET r == response_json(resp) IN
    IF r.outcome = "raise" THEN [kind |-> "raise", call |-> r]
    ELSE LET status == get(r.value, "status", None) IN
         IF status = "success" THEN [kind |-> "True", call |-> r]
         ELSE IF status = "failure" THEN [kind |-> "False", call |-> r]
         ELSE [kind |-> "sleep", call |-> r]

\* AstrometrySolver.login: the session stored, or the exception raised.
AstrometrySolver_login(sess, resp) ==
    LET r == response_json(resp) IN
    IF r.outcome = "raise" THEN [call |-> r, session |-> sess]
    ELSE IF get(r.value, "status", None) = "success"
         THEN [call |-> r, session |-> get(r.value, "session", None)]
         ELSE [call |-> Raise("Exception", "Login failed"), session |-> sess]

\* AstrometrySolver.upload_image, lines 41-47: the submission id, or a raise.
upload_image_reply(resp) ==
    LET r == response_json(resp) IN
    IF r.outcome = "raise" THEN [call |-> r, sub_id |-> None]
    ELSE IF get(r.value, "status", None) = "success"
         THEN [call |-> r, sub_id |-> get(r.value, "subid", None)]
         ELSE [call |-> Raise("Exception", "Upload failed"), sub_id |-> None]

\* AstrometrySolver.get_job_info: the parsed body on status 200, else None.
get_job_info(resp) ==
    IF resp.status_code = 200 THEN response_json(resp) ELSE ReturnNone

\* run_client, lines 333-339: what the script does with the result of c.upload.
run_client_upload(upres) ==
    IF upres.outcome = "raise" THEN [pc |-> "uncaught", exc |-> upres.exc, sub_id |-> None]
    ELSE IF upres.none THEN [pc |-> "uncaught", exc |-> "TypeError", sub_id |-> None]
    ELSE IF "status" \notin DOMAIN upres.value
         THEN [pc |-> "uncaught", exc |-> "KeyError", sub_id |-> None]
    ELSE IF upres.value["status"] # "success"
         THEN [pc |-> "sys_exit", exc |-> "SystemExit", sub_id |-> None]
    ELSE IF "subid" \notin DOMAIN upres.value
         THEN [pc |-> "uncaught", exc |-> "KeyError", sub_id |-> None]
    ELSE [pc |-> "wait_submission", exc |-> None, sub_id |-> upres.value["subid"]]

\* A status poll of run_client (justdict=True): stat is the send_request result,
\* and stat.get raises AttributeError when that result is None.
run_client_stat(call) ==
    IF call.outcome = "raise" THEN call
    ELSE IF call.none THEN Raise("AttributeError", "NoneType has no attribute get")
    ELSE call

(* ------------------- client.py: Client._get_upload_args ---------------- *)

\* A Python value with its type: the text is its repr (str values without quotes).
pyval(typ, text) == [typ |-> typ, text |-> text]

\* The list of (key, default, typ) of lines 137-161, in its order.
UploadOptions ==
    <<<<"allow_commercial_use", "d", "str">>,
      <<"allow_modifications", "d", "str">>,
      <<"publicly_visible", "y", "str">>,
      <<"scale_units", None, "str">>,
      <<"scale_type", None, "str">>,
      <<"scale_lower", None, "float">>,
      <<"scale_upper", None, "float">>,
      <<"scale_est", None, "float">>,
      <<"scale_err", None, "float">>,
      <<"center_ra", None, "float">>,
      <<"center_dec", None, "float">>,
      <<"parity", None, "int">>,
      <<"radius", None, "float">>,
      <<"downsample_factor", None, "int">>,
      <<"positional_error", None, "float">>,
      <<"tweak_order", None, "int">>,
      <<"crpix_center", None, "bool">>,
      <<"invert", None, "bool">>,
      <<"use_sextractor", None, "bool">>,
      <<"image_width", None, "int">>,
      <<"image_height", None, "int">>,
      <<"x", None, "list">>,
      <<"y", None, "list">>,
      <<"album", None, "str">>>>

\* float(v) of the values of the model: a str is parsed, a float is itself.
FloatOf == ("2" :> "2.0") @@ ("1.5" :> "1.5")

\* int(v): a str is parsed (int('1.5') raises), a float is truncated.
IntOf(v) == IF v.typ = "str" THEN ("2" :> "2") ELSE ("1.5" :> "1")

\* typ(val), line 165: the converted value, or the ValueError / TypeError of
\* the conversion.
convert(typ, v) ==
    CASE typ = "str" -> [raises |-> FALSE, val |-> pyval("str", v.text)]
      [] typ = "float" ->
           IF v.text \in DOMAIN FloatOf
           THEN [raises |-> FALSE, val |-> pyval("float", FloatOf[v.text])]
           ELSE [raises |-> TRUE, val |-> v]
      [] typ = "int" ->
           IF v.text \in DOMAIN IntOf(v)
           THEN [raises |-> FALSE, val |-> pyval("int", IntOf(v)[v.text])]
           ELSE [raises |-> TRUE, val |-> v]
      [] typ = "bool" ->
           [raises |-> FALSE,
            val |-> pyval("bool", IF v.text \in {"", "0.0"} THEN "False" ELSE "True")]
      [] typ = "list" ->
           IF v.typ = "str"
           THEN [raises |-> FALSE, val |-> pyval("list", v.text)]
           ELSE [raises |-> TRUE, val |-> v]

\* Every option counts as having a default.
has_default_always(default) == TRUE

\* Line 167: elif default is not None.
has_default(default) == default # None

RECURSIVE upload_args_from(_, _, _)
\* _get_upload_args, lines 137-168: the loop from the k-th option on, args
\* being the dict built so far.
upload_args_from(kwargs, k, args) ==
    IF k > Len(UploadOptions) THEN [raises |-> FALSE, args |-> args]
    ELSE LET key == UploadOptions[k][1]
             default == UploadOptions[k][2]
             typ == UploadOptions[k][3]
         IN
         IF key \in DOMAIN kwargs
         THEN LET c == convert(typ, kwargs[key]) IN
              IF c.raises THEN [raises |-> TRUE, args |-> EmptyDict]
              ELSE upload_args_from(kwargs, k + 1, update(args, key, c.val))
         ELSE IF has_default(default)
              THEN upload_args_from(kwargs, k + 1, update(args, key, pyval("str", default)))
         ELSE upload_args_from(kwargs, k + 1, args)

\* Client._get_upload_args, lines 135-169: the dict returned, or the exception.
Client_get_upload_args(kwargs) == upload_args_from(kwargs, 1, EmptyDict)

(* ------------------------ constellation_data.py ------------------------ *)

\* A string is the sequence of its characters.  A Latin letter, a digit, a space
\* or a tab is itself; a character of the Greek block is the name of its
\* codepoint ("u03b1" is the lowercase alpha).

\* The characters of the string literals of the model.
Letters ==
    ("Alpha" :> <<"A", "l", "p", "h", "a">>)
      @@ ("Beta" :> <<"B", "e", "t", "a">>)
      @@ ("Gamma" :> <<"G", "a", "m", "m", "a">>)
      @@ ("Delta" :> <<"D", "e", "l", "t", "a">>)
      @@ ("Epsilon" :> <<"E", "p", "s", "i", "l", "o", "n">>)
      @@ ("Zeta" :> <<"Z", "e", "t", "a">>)
      @@ ("Eta" :> <<"E", "t", "a">>)
      @@ ("Theta" :> <<"T", "h", "e", "t", "a">>)
      @@ ("Iota" :> <<"I", "o", "t", "a">>)
      @@ ("Kappa" :> <<"K", "a", "p", "p", "a">>)
      @@ ("Lambda" :> <<"L", "a", "m", "b", "d", "a">>)
      @@ ("Mu" :> <<"M", "u">>)
      @@ ("Nu" :> <<"N", "u">>)
      @@ ("Xi" :> <<"X", "i">>)
      @@ ("Omicron" :> <<"O", "m", "i", "c", "r", "o", "n">>)
      @@ ("Pi" :> <<"P", "i">>)
      @@ ("Rho" :> <<"R", "h", "o">>)
      @@ ("Sigma" :> <<"S", "i", "g", "m", "a">>)
      @@ ("Tau" :> <<"T", "a", "u">>)
      @@ ("Upsilon" :> <<"U", "p", "s", "i", "l", "o", "n">>)
      @@ ("Phi" :> <<"P", "h", "i">>)
      @@ ("Chi" :> <<"C", "h", "i">>)
      @@ ("Psi" :> <<"P", "s", "i">>)
      @@ ("Omega" :> <<"O", "m", "e", "g", "a">>)
      @@ ("Beta Ori" :> <<"B", "e", "t", "a", " ", "O", "r", "i">>)
      @@ ("Eta Ori" :> <<"E", "t", "a", " ", "O", "r", "i">>)
      @@ ("Delta Ori" :> <<"D", "e", "l", "t", "a", " ", "O", "r", "i">>)
      @@ ("Nu Ori" :> <<"N", "u", " ", "O", "r", "i">>)
      @@ ("Chi2 Ori" :> <<"C", "h", "i", "2", " ", "O", "r", "i">>)
      @@ ("Theta Ori" :> <<"T", "h", "e", "t", "a", " ", "O", "r", "i">>)
      @@ ("Eta Orionis" :> <<"E", "t", "a", " ", "O", "r", "i", "o", "n", "i", "s">>)
      @@ (" Ori" :> <<" ", "O", "r", "i">>)
      @@ ("  Ori" :> <<" ", " ", "O", "r", "i">>)
      @@ (" Ori " :> <<" ", "O", "r", "i", " ">>)
      @@ (" UMa" :> <<" ", "U", "M", "a">>)
      @@ ("2 Ori" :> <<"2", " ", "O", "r", "i">>)
      @@ ("Rigel" :> <<"R", "i", "g", "e", "l">>)
      @@ ("Mintaka" :> <<"M", "i", "n", "t", "a", "k", "a">>)
      @@ ("Unknown" :> <<"U", "n", "k", "n", "o", "w", "n">>)
      @@ ("M 42" :> <<"M", " ", "4", "2">>)
      @@ ("NGC 1976" :> <<"N", "G", "C", " ", "1", "9", "7", "6">>)

letters(s) == Letters[s]

\* GREEK_MAP, lines 110-135, in the order of the dict: the 24 lowercase letters
\* alpha .. omega (U+03B1 .. U+03C9 without the final sigma U+03C2).
GREEK_MAP ==
    <<<<"u03b1", "Alpha">>,
      <<"u03b2", "Beta">>,
      <<"u03b3", "Gamma">>,
      <<"u03b4", "Delta">>,
      <<"u03b5", "Epsilon">>,
      <<"u03b6", "Zeta">>,
      <<"u03b7", "Eta">>,
      <<"u03b8", "Theta">>,
      <<"u03b9", "Iota">>,
      <<"u03ba", "Kappa">>,
      <<"u03bb", "Lambda">>,
      <<"u03bc", "Mu">>,
      <<"u03bd", "Nu">>,
      <<"u03be", "Xi">>,
      <<"u03bf", "Omicron">>,
      <<"u03c0", "Pi">>,
      <<"u03c1", "Rho">>,
      <<"u03c3", "Sigma">>,
      <<"u03c4", "Tau">>,
      <<"u03c5", "Upsilon">>,
      <<"u03c6", "Phi">>,
      <<"u03c7", "Chi">>,
      <<"u03c8", "Psi">>,
      <<"u03c9", "Omega">>>>

GreekLetters == {GREEK_MAP[k][1] : k \in 1 .. Len(GREEK_MAP)}

\* The Latin name the table gives to the letter g.
english_of(g) == letters(GREEK_MAP[CHOOSE k \in 1 .. Len(GREEK_MAP) : GREEK_MAP[k][1] = g][2])

\* The characters str.split() splits on (the space and the tab of them).
Whitespace == {" ", "\t"}

\* name.replace(greek, english, 1): only the first occurrence is replaced.
replace_first(name, greek, english) ==
    LET hits == {i \in 1 .. Len(name) : name[i] = greek} IN
    IF hits = {} THEN name
    ELSE LET i == CHOOSE h \in hits : \A j \in hits : h <= j IN
         SubSeq(name, 1, i - 1) \o english \o SubSeq(name, i + 1, Len(name))

\* name.replace(greek, english): every occurrence of the character is replaced.
replace(name, greek, english) ==
    concat([i \in 1 .. Len(name) |-> IF name[i] = greek THEN english ELSE <<name[i]>>])

RECURSIVE replace_greek(_, _)
\* normalize_name, lines 145-146: the loop over GREEK_MAP.items(), from entry k on.
replace_greek(name, k) ==
    IF k > Len(GREEK_MAP) THEN name
    ELSE replace_greek(replace(name, GREEK_MAP[k][1], letters(GREEK_MAP[k][2])), k + 1)

RECURSIVE str_split(_, _, _)
\* name.split(): the maximal runs of characters that are not whitespace (word is
\* the run being read, out the runs read so far).
str_split(name, word, out) ==
    IF name = <<>> THEN (IF word = <<>> THEN out ELSE Append(out, word))
    ELSE IF Head(name) \in Whitespace
         THEN str_split(Tail(name), <<>>, IF word = <<>> THEN out ELSE Append(out, word))
    ELSE str_split(Tail(name), Append(word, Head(name)), out)

RECURSIVE str_join(_, _)
\* sep.join(parts)
str_join(sep, parts) ==
    IF parts = <<>> THEN <<>>
    ELSE IF Len(parts) = 1 THEN parts[1]
    ELSE parts[1] \o sep \o str_join(sep, Tail(parts))

\* The name as it is, not normalized.
not_normalized(name) == name

\* normalize_name, lines 137-149.
normalize_name(name) == str_join(<<" ">>, str_split(replace_greek(name, 1), <<>>, <<>>))

\* The lowercase of the capitals that begin the catalog patterns of the model.
lower(c) ==
    CASE c = "B" -> "b" [] c = "C" -> "c" [] c = "D" -> "d" [] c = "E" -> "e"
      [] c = "N" -> "n" [] c = "O" -> "o" [] c = "T" -> "t" [] OTHER -> c

\* pattern.lower() in text.lower(): containment that ignores the case.
str_in_ignoring_case(pattern, text) ==
    /\ Len(pattern) <= Len(text)
    /\ \E i \in 1 .. (Len(text) + 1 - Len(pattern)) :
         \A k \in 1 .. Len(pattern) : lower(text[i + k - 1]) = lower(pattern[k])

\* pattern in text: the pattern occurs as a run of consecutive characters.
str_in(pattern, text) ==
    /\ Len(pattern) <= Len(text)
    /\ \E i \in 1 .. (Len(text) + 1 - Len(pattern)) :
         SubSeq(text, i, i + Len(pattern) - 1) = pattern

\* What find_star_in_annotations returns for None; a star is returned as its
\* position in the annotation list (the list's own dict object).
NoStar == 0

RECURSIVE find_star_from(_, _, _, _)
\* find_star_in_annotations, lines 165-175: the two loops, at annotation i and
\* alias n.
find_star_from(star_name_pattern, annotations, i, n) ==
    IF i > Len(annotations) THEN NoStar
    ELSE LET names == get(annotations[i], "names", <<>>) IN
         IF n > Len(names) THEN find_star_from(star_name_pattern, annotations, i + 1, 1)
         ELSE IF str_in(star_name_pattern, normalize_name(names[n])) THEN i
         ELSE find_star_from(star_name_pattern, annotations, i, n + 1)

RECURSIVE find_last_star_from(_, _, _, _)
\* The scan keeping the last match instead of returning the first.
find_last_star_from(star_name_pattern, annotations, i, n) ==
    IF i > Len(annotations) THEN NoStar
    ELSE LET names == get(annotations[i], "names", <<>>)
             later == find_last_star_from(star_name_pattern, annotations, i + 1, 1)
         IN
         IF later # NoStar THEN later
         ELSE IF \E k \in 1 .. Len(names) :
                   str_in(star_name_pattern, normalize_name(names[k]))
              THEN i
         ELSE NoStar

find_last_star(star_name_pattern, annotations) ==
    find_last_star_from(star_name_pattern, annotations, 1, 1)

\* find_star_in_annotations, lines 151-177.
find_star_in_annotations(star_name_pattern, annotations) ==
    find_star_from(star_name_pattern, annotations, 1, 1)

\* STAR_DISTANCES_LY, lines 13-56: the entries of the patterns of the model.
STAR_DISTANCES_LY ==
    ("Beta Ori" :> 863) @@ ("Delta Ori" :> 1200) @@ ("Eta Ori" :> 900) @@ ("Nu Ori" :> 500)

\* CONSTELLATION_LINES, lines 58-107: of the pairs of 'Ori', the two through Eta
\* Ori (lines 68-69).
CONSTELLATION_LINES == << <<"Beta Ori", "Eta Ori">>, <<"Eta Ori", "Delta Ori">> >>

\* The list with the pair that line 75 keeps as a comment; Chi2 Ori has no
\* entry in STAR_DISTANCES_LY.
CONSTELLATION_LINES_Chi2 == Append(CONSTELLATION_LINES, <<"Nu Ori", "Chi2 Ori">>)

(* --------------------------- annotate_fits.py -------------------------- *)

\* Coordinates, scales and distances are whole numbers, chosen so that every
\* pixel distance is whole and every angle is one of Angles.

\* deg_per_pixel = None (line 34); 'if deg_per_pixel' is false for it, as for 0.0.
NoScale == 0

\* STAR_DISTANCES_LY.get(pattern) = None; 'if d1 and d2' is false for it, as for 0.0.
NoDistance == 0

\* The angular separations of the model, in degrees.
Angles == {0, 60, 90, 120, 180, 360}

\* 2 * np.cos(np.radians(dist_deg))
twice_cos(dist_deg) ==
    CASE dist_deg \in {0, 360} -> 2
      [] dist_deg = 60 -> 1
      [] dist_deg = 90 -> 0
      [] dist_deg = 120 -> -1
      [] dist_deg = 180 -> -2

\* np.sqrt(x) to the nearest whole number: the root itself when x is a square.
np_sqrt(x) ==
    CHOOSE r \in 0 .. x :
        (r = 0 \/ (2 * r - 1) * (2 * r - 1) <= 4 * x) /\ 4 * x < (2 * r + 1) * (2 * r + 1)

\* The argument of the square root of line 142.
dist_ly_squared(d1, d2, dist_deg) == d1 * d1 + d2 * d2 - d1 * d2 * twice_cos(dist_deg)

\* The formula with the sign of the cosine term reversed.
dist_ly_plus(d1, d2, dist_deg) ==
    np_sqrt(d1 * d1 + d2 * d2 + d1 * d2 * twice_cos(dist_deg))

\* annotate_image, lines 141-142: dist_ly by the law of cosines.
dist_ly(d1, d2, dist_deg) == np_sqrt(dist_ly_squared(d1, d2, dist_deg))

\* One of the two stars was found.
either_found(star1, star2) == star1 # NoStar \/ star2 # NoStar

\* annotate_image, line 118: if star1 and star2.
both_found(star1, star2) == star1 # NoStar /\ star2 # NoStar

\* One of the two distances is known.
either_known(d1, d2) == d1 # NoDistance \/ d2 # NoDistance

\* annotate_image, line 137: if d1 and d2.
both_known(d1, d2) == d1 # NoDistance /\ d2 # NoDistance

\* annotate_image, lines 135-145: the text of the label of an edge, as the
\* sequence of its formatted numbers.
label_text(star1_pat, star2_pat, dist_deg) ==
    LET d1 == get(STAR_DISTANCES_LY, star1_pat, NoDistance)
        d2 == get(STAR_DISTANCES_LY, star2_pat, NoDistance)
    IN
    <<[number |-> dist_deg, format |-> ".1f", unit |-> "deg"]>>
      \o (IF both_known(d1, d2)
          THEN <<[number |-> dist_ly(d1, d2, dist_deg), format |-> ".0f", unit |-> "ly"]>>
          ELSE <<>>)

\* annotate_image, lines 113-150: what one catalog pair (the k-th) adds to the
\* axes, or the TypeError of subscripting None.
plot_edge(k, star1_pat, star2_pat, anns, scale) ==
    LET star1 == find_star_in_annotations(letters(star1_pat), anns)
        star2 == find_star_in_annotations(letters(star2_pat), anns)
    IN
    IF ~both_found(star1, star2) THEN [raises |-> FALSE, added |-> <<>>]
    ELSE IF star1 = NoStar \/ star2 = NoStar THEN [raises |-> TRUE, added |-> <<>>]
    ELSE LET x1 == anns[star1]["pixelx"]
             y1 == anns[star1]["pixely"]
             x2 == anns[star2]["pixelx"]
             y2 == anns[star2]["pixely"]
             dist_px == np_sqrt((x2 - x1) * (x2 - x1) + (y2 - y1) * (y2 - y1))
             dist_deg == dist_px * scale
         IN
         [raises |-> FALSE,
          added |->
            <<[kind |-> "line", pair |-> k, x1 |-> x1, y1 |-> y1, x2 |-> x2, y2 |-> y2,
               color |-> "lime"]>>
              \o (IF scale # NoScale
                  THEN <<[kind |-> "label", pair |-> k, x |-> (x1 + x2) \div 2,
                          y |-> (y1 + y2) \div 2,
                          text |-> label_text(star1_pat, star2_pat, dist_deg),
                          color |-> "white"]>>
                  ELSE <<>>)]

\* The circle drawn from the radius 5 on.
draws_circle_from_5(radius) == radius >= 5

\* annotate_image, line 97: if radius > 5.
draws_circle(radius) == radius > 5

\* annotate_image, lines 74-105: the shape and the name drawn for one annotation.
plot_annotation(a) ==
    LET cx == a["pixelx"]
        cy == a["pixely"]
        names == get(a, "names", <<>>)
        name == IF Len(names) > 0 THEN names[1] ELSE letters("Unknown")
        ann_type == get(a, "type", "unknown")
        radius == get(a, "radius", 0)
        style == IF ann_type \in {"ngc", "ic"}
                 THEN [color |-> "cyan", marker |-> "o",
                       size |-> IF radius > 0 THEN radius ELSE 20]
                 ELSE IF ann_type = "bright"
                      THEN [color |-> "yellow", marker |-> "*", size |-> 50]
                 ELSE [color |-> "red", marker |-> "x", size |-> 20]
    IN
    <<IF draws_circle(radius)
      THEN [kind |-> "circle", x |-> cx, y |-> cy, radius |-> radius,
            color |-> style.color]
      ELSE [kind |-> "scatter", x |-> cx, y |-> cy, size |-> style.size,
            color |-> style.color, marker |-> style.marker],
      [kind |-> "text", x |-> cx + 10, y |-> cy + 10, text |-> name,
       color |-> style.color]>>

RECURSIVE plot_annotations(_)
\* annotate_image, lines 74-105: the loop, which stops with a KeyError at the
\* first annotation without 'pixelx' or 'pixely'.
plot_annotations(anns) ==
    IF anns = <<>> THEN [raises |-> FALSE, added |-> <<>>]
    ELSE IF {"pixelx", "pixely"} \subseteq DOMAIN Head(anns)
         THEN LET rest == plot_annotations(Tail(anns)) IN
              [raises |-> rest.raises, added |-> plot_annotation(Head(anns)) \o rest.added]
    ELSE [raises |-> TRUE, added |-> <<>>]

(* ------------------------------- state -------------------------------- *)

VARIABLES
    prog,         \* which program runs: "solver" (astrometry_solver.main),
                  \* "client" (__main__ of client.py), "two" (two Client instances),
                  \* "results" (run_client with opt.upload_url and opt.job_id:
                  \* login, url_upload, job_status)
    pc,           \* position of the script
    img,          \* index of the image being processed
    session,      \* self.session of each instance
    defaultArgs,  \* the dict object that is the default of send_request's args
    lastReq,      \* the last request sent (with the sender's session and image then)
    request,      \* the Request object of the last send_request: headers and data
    lastResp,     \* the last response received
    lastCall,     \* what the last send_request / requests call did
    lastOp,       \* what the last method call on an instance did
    sub_id,       \* sub_id / opt.sub_id
    job_id,       \* job_id / opt.solved_id
    polls,        \* polls made by the wait loop the script is in (or was last in)
    job_stat,     \* the status last read from a job-status response for this job
    outcome,      \* per image: how its solve ended
    raised,       \* per image: the exception that ended it
    arg,          \* the argument(s) of the function called on its own
    ret,          \* what that call returned
    annotations,  \* annotate_image: the list loaded from the JSON file
    deg_per_pixel, \* annotate_image: the pixel scale, or None
    lines,        \* annotate_image: the catalog pairs, in the order of the loops
    edge,         \* annotate_image: how many of them have been processed
    overlay       \* annotate_image: the primitives added to the axes, in order

vars ==
    <<prog, pc, img, session, defaultArgs, lastReq, request, lastResp, lastCall,
      lastOp, sub_id, job_id, polls, job_stat, outcome, raised,
      arg, ret, annotations, deg_per_pixel, lines, edge, overlay>>

\* The state of the clients of the service.
orch ==
    <<img, session, defaultArgs, lastReq, request, lastResp, lastCall, lastOp,
      sub_id, job_id, polls, job_stat, outcome, raised>>

\* The state of a function called on its own.
pure == <<arg, ret>>

\* The state of annotate_image.
plot == <<annotations, deg_per_pixel, lines, edge, overlay>>

perImage == <<sub_id, job_id, polls, job_stat>>

NoReq ==
    [inst |-> 0, service |-> "none", method |-> "none", json |-> EmptyDict,
     passed |-> EmptyDict, args |-> EmptyDict, multipart |-> FALSE,
     file_args |-> NoFile, sess |-> None, img |-> 0]

NoOp == [op |-> "none", inst |-> 0, call |-> NoCall]

\* No client has sent anything.
Unsent ==
    /\ img = 1
    /\ session = [i \in Inst |-> None]
    /\ defaultArgs = EmptyDict
    /\ lastReq = NoReq
    /\ request = NoRequest
    /\ lastResp = NoResp
    /\ lastCall = NoCall
    /\ lastOp = NoOp
    /\ sub_id = None
    /\ job_id = None
    /\ polls = 0
    /\ job_stat = None
    /\ outcome = [i \in Images |-> "none"]
    /\ raised = [i \in Images |-> None]

\* No function has been called on its own.
NoPure == arg = None /\ ret = None

\* annotate_image has not been called.
NoPlot ==
    /\ annotations = <<>>
    /\ deg_per_pixel = None
    /\ lines = <<>>
    /\ edge = 0
    /\ overlay = <<>>

Init ==
    /\ prog \in {"solver", "client", "two", "results"}
    /\ pc = CASE prog = "solver" -> "upload"
              [] prog \in {"client", "results"} -> "login"
              [] OTHER -> "calls"
    /\ NoPure
    /\ NoPlot
    /\ Unsent


\* One exchange through Client.send_request on instance i.
ClientSends(i, service, r, file_args, resp, usesDefault) ==
    /\ lastReq' = [inst |-> i, service |-> service, method |-> "POST", json |-> r.json,
                   passed |-> r.passed, args |-> r.args, multipart |-> file_args # NoFile,
                   file_args |-> file_args, sess |-> session[i], img |-> img]
    /\ request' \in {encode(r.args, file_args, boundary_key) : boundary_key \in BoundaryKeys}
    /\ lastResp' = resp
    /\ lastCall' = r.call
    /\ defaultArgs' = IF usesDefault THEN r.args ELSE defaultArgs

\* One exchange through the requests library by the AstrometrySolver instance.
SolverSends(service, method, json, file, resp, call) ==
    /\ lastReq' = [inst |-> 1, service |-> service, method |-> method, json |-> json,
                   passed |-> json, args |-> json, multipart |-> file,
                   file_args |-> NoFile, sess |-> session[1], img |-> img]
    /\ request' = NoRequest
    /\ lastResp' = resp
    /\ lastCall' = call
    /\ UNCHANGED defaultArgs

(* ------------- two Client instances used side by side ----------------- *)

Call_login(i) ==
    /\ prog = "two"
    /\ \E resp \in Responses(LoginBodies) :
         LET l == Client_login(session[i], resp) IN
         /\ ClientSends(i, "login", l.sr, NoFile, resp, FALSE)
         /\ session' = [session EXCEPT ![i] = l.session]
         /\ lastOp' = [op |-> "login", inst |-> i, call |-> l.call]
    /\ UNCHANGED <<prog, pure, plot, pc, img, perImage, outcome, raised>>

\* Client.myjobs: send_request('myjobs/') with the default args, then result['jobs'].
Call_myjobs(i) ==
    /\ prog = "two"
    /\ \E resp \in Responses(ResultBodies) :
         LET r == send_request(session[i], defaultArgs, resp) IN
         /\ ClientSends(i, "myjobs/", r, NoFile, resp, TRUE)
         /\ lastOp' = [op |-> "myjobs", inst |-> i,
                       call |-> IF r.call.outcome = "raise" THEN r.call
                                ELSE IF r.call.none
                                     THEN Raise("TypeError", "NoneType is not subscriptable")
                                ELSE IF "jobs" \notin DOMAIN r.call.value
                                     THEN Raise("KeyError", "jobs")
                                ELSE r.call]
    /\ UNCHANGED <<prog, pure, plot, pc, img, session, perImage, outcome, raised>>

\* Client.sub_status(sub_id): default args, then result.get('status').
Call_sub_status(i) ==
    /\ prog = "two"
    /\ \E resp \in Responses(SubBodies) :
         LET r == send_request(session[i], defaultArgs, resp) IN
         /\ ClientSends(i, "submissions/ID", r, NoFile, resp, TRUE)
         /\ lastOp' = [op |-> "sub_status", inst |-> i, call |-> run_client_stat(r.call)]
    /\ UNCHANGED <<prog, pure, plot, pc, img, session, perImage, outcome, raised>>

\* job_status dropping the stored session when the request fails.
Call_job_status_dropping_session(i) ==
    /\ prog = "two"
    /\ \E resp \in Responses(JobBodies) :
         LET r == send_request(session[i], defaultArgs, resp) IN
         /\ ClientSends(i, "jobs/ID", r, NoFile, resp, TRUE)
         /\ lastOp' = [op |-> "job_status", inst |-> i, call |-> r.call]
         /\ session' = [session EXCEPT ![i] = IF r.call.outcome = "raise" THEN None ELSE @]
    /\ UNCHANGED <<prog, pure, plot, pc, img, perImage, outcome, raised>>

\* Client.job_status(job_id, justdict=True): default args, the dict is returned.
Call_job_status(i) ==
    /\ prog = "two"
    /\ \E resp \in Responses(JobBodies) :
         LET r == send_request(session[i], defaultArgs, resp) IN
         /\ ClientSends(i, "jobs/ID", r, NoFile, resp, TRUE)
         /\ lastOp' = [op |-> "job_status", inst |-> i, call |-> r.call]
    /\ UNCHANGED <<prog, pure, plot, pc, img, session, perImage, outcome, raised>>

\* Client.upload(fn): a fresh args dict from _get_upload_args and the file.
Call_upload(i) ==
    /\ prog = "two"
    /\ \E resp \in Responses(UploadBodies), fn \in FileNames, bytes \in SomePayloads :
         LET r == send_request(session[i], get_upload_args, resp) IN
         /\ ClientSends(i, "upload", r, [fn |-> fn, bytes |-> bytes], resp, FALSE)
         /\ lastOp' = [op |-> "upload", inst |-> i, call |-> r.call]
    /\ UNCHANGED <<prog, pure, plot, pc, img, session, perImage, outcome, raised>>

(* ------------- client.py __main__: run_client per image --------------- *)

\* The wait loops of the code are 'while True' loops with no bound.  The model
\* counts the polls of a loop up to MaxPolls; a loop polls either up to that
\* count or for ever (the count then stays at MaxPolls).
PollOn(forever) == forever \/ polls < MaxPolls

Polled == IF polls < MaxPolls THEN polls + 1 ELSE polls

\* An exception nobody catches, or sys.exit: the process ends at this image.
Dies(how, exc) ==
    /\ pc' = how
    /\ raised' = [raised EXCEPT ![img] = exc]

\* run_client, lines 287-288: a new Client (instance img) logs in.
rc_login ==
    /\ prog \in {"client", "results"} /\ pc = "login"
    /\ \E resp \in Responses(LoginBodies) :
         LET l == Client_login(session[img], resp) IN
         /\ ClientSends(img, "login", l.sr, NoFile, resp, FALSE)
         /\ session' = [session EXCEPT ![img] = l.session]
         /\ lastOp' = [op |-> "login", inst |-> img, call |-> l.call]
         /\ IF l.call.outcome = "raise"
            THEN Dies("uncaught", l.call.exc)
            ELSE /\ pc' = IF prog = "client" THEN "upload" ELSE "url_upload"
                 /\ UNCHANGED raised
    /\ UNCHANGED <<prog, pure, plot, img, perImage, outcome>>

\* run_client, lines 323-339: c.upload(opt.upload, **kwargs).
rc_upload ==
    /\ prog = "client" /\ pc = "upload"
    /\ \E resp \in Responses(UploadBodies), fn \in FileNames, bytes \in Payloads :
         LET r == send_request(session[img], get_upload_args, resp)
             u == run_client_upload(r.call)
         IN
         /\ ClientSends(img, "upload", r, [fn |-> fn, bytes |-> bytes], resp, FALSE)
         /\ lastOp' = [op |-> "upload", inst |-> img, call |-> r.call]
         /\ sub_id' = u.sub_id
         /\ IF u.exc # None THEN Dies(u.pc, u.exc) ELSE pc' = u.pc /\ UNCHANGED raised
    /\ UNCHANGED <<prog, pure, plot, img, session, job_id, polls, job_stat, outcome>>

\* run_client, lines 347-359: one iteration of the submission wait loop.
rc_wait_submission_poll(forever) ==
    /\ prog = "client" /\ pc = "wait_submission"
    /\ PollOn(forever)
    /\ \E resp \in Responses(SubBodies) :
         LET r == send_request(session[img], defaultArgs, resp)
             stat == run_client_stat(r.call)
             j == IF stat.outcome = "raise" THEN None ELSE run_client_select(stat.value)
         IN
         /\ ClientSends(img, "submissions/ID", r, NoFile, resp, TRUE)
         /\ lastOp' = [op |-> "sub_status", inst |-> img, call |-> stat]
         /\ job_id' = j
         /\ IF stat.outcome = "raise"
            THEN Dies("uncaught", stat.exc) /\ polls' = Polled
            ELSE /\ pc' = IF j # None THEN "wait_job" ELSE "wait_submission"
                 /\ polls' = IF j # None THEN 0 ELSE Polled
                 /\ UNCHANGED raised
    /\ UNCHANGED <<prog, pure, plot, img, session, sub_id, job_stat, outcome>>

rc_wait_submission == rc_wait_submission_poll(FALSE)

rc_wait_submission_forever == rc_wait_submission_poll(TRUE)

\* run_client, lines 361-370: one iteration of the job wait loop.
rc_wait_job_poll(forever) ==
    /\ prog = "client" /\ pc = "wait_job"
    /\ PollOn(forever)
    /\ \E resp \in Responses(JobBodies) :
         LET r == send_request(session[img], defaultArgs, resp)
             stat == run_client_stat(r.call)
             d == IF stat.outcome = "raise" THEN "raise" ELSE run_client_job(stat.value)
         IN
         /\ ClientSends(img, "jobs/ID", r, NoFile, resp, TRUE)
         /\ lastOp' = [op |-> "job_status", inst |-> img, call |-> stat]
         /\ polls' = Polled
         /\ job_stat' = IF stat.outcome = "raise" THEN job_stat
                        ELSE get(stat.value, "status", "")
         /\ CASE d = "raise" -> Dies("uncaught", stat.exc) /\ UNCHANGED outcome
              [] d = "break" ->
                   /\ pc' = "retrieve_wcs"
                   /\ outcome' = [outcome EXCEPT ![img] = "JOB_SUCCEEDED"]
                   /\ UNCHANGED raised
              [] d = "sys.exit" ->
                   /\ Dies("sys_exit", "SystemExit")
                   /\ outcome' = [outcome EXCEPT ![img] = "JOB_FAILED"]
              [] OTHER -> UNCHANGED <<pc, outcome, raised>>
    /\ UNCHANGED <<prog, pure, plot, img, session, sub_id, job_id>>

rc_wait_job == rc_wait_job_poll(FALSE)

rc_wait_job_forever == rc_wait_job_poll(TRUE)

\* run_client, lines 389-394: the wcs file, then the new FITS file, are fetched
\* with urlopen directly (not through the Client); HTTPError is not caught.
rc_retrieve ==
    /\ prog = "client" /\ pc \in {"retrieve_wcs", "retrieve_newfits"}
    /\ \E code \in {200, 500} :
         IF code = 200
         THEN /\ pc' = IF pc = "retrieve_wcs" THEN "retrieve_newfits" ELSE "annotate"
              /\ UNCHANGED raised
         ELSE Dies("uncaught", "HTTPError")
    /\ UNCHANGED <<prog, pure, plot, img, session, defaultArgs, lastReq, request, lastResp, lastCall,
                   lastOp,
                   perImage, outcome>>

\* run_client, lines 396-399: c.annotate_data(opt.solved_id), default args.
rc_annotate ==
    /\ prog = "client" /\ pc = "annotate"
    /\ \E resp \in Responses(ResultBodies) :
         LET r == send_request(session[img], defaultArgs, resp) IN
         /\ ClientSends(img, "jobs/ID/annotations", r, NoFile, resp, TRUE)
         /\ lastOp' = [op |-> "annotate_data", inst |-> img, call |-> r.call]
         /\ IF r.call.outcome = "raise" THEN Dies("uncaught", r.call.exc)
            ELSE pc' = "sub_status" /\ UNCHANGED raised
    /\ UNCHANGED <<prog, pure, plot, img, session, perImage, outcome>>

\* run_client, lines 408-409: print(c.sub_status(opt.sub_id)).
rc_sub_status ==
    /\ prog = "client" /\ pc = "sub_status"
    /\ \E resp \in Responses(SubBodies) :
         LET r == send_request(session[img], defaultArgs, resp)
             stat == run_client_stat(r.call)
         IN
         /\ ClientSends(img, "submissions/ID", r, NoFile, resp, TRUE)
         /\ lastOp' = [op |-> "sub_status", inst |-> img, call |-> stat]
         /\ IF stat.outcome = "raise" THEN Dies("uncaught", stat.exc)
            ELSE pc' = "next" /\ UNCHANGED raised
    /\ UNCHANGED <<prog, pure, plot, img, session, perImage, outcome>>

\* __main__, lines 439-452: the second run_client runs when the converted image exists.
rc_next ==
    /\ prog = "client" /\ pc = "next"
    /\ \E exists \in BOOLEAN :
         IF img < NumImages /\ exists
         THEN /\ img' = img + 1
              /\ pc' = "login"
              /\ sub_id' = None /\ job_id' = None /\ polls' = 0 /\ job_stat' = None
         ELSE pc' = "done" /\ UNCHANGED <<img, perImage>>
    /\ UNCHANGED <<prog, pure, plot, session, defaultArgs, lastReq, request, lastResp, lastCall,
                   lastOp,
                   outcome, raised>>

(* --- run_client with opt.upload_url and opt.job_id, without opt.wait --- *)

\* run_client, lines 330-339, and Client.url_upload: args = dict(url=url) and
\* the upload args, no file.
rc_url_upload ==
    /\ prog = "results" /\ pc = "url_upload"
    /\ \E resp \in Responses(UploadBodies), url \in Urls :
         LET r == send_request(session[img], ("url" :> url) @@ get_upload_args, resp)
             u == run_client_upload(r.call)
         IN
         /\ ClientSends(img, "url_upload", r, NoFile, resp, FALSE)
         /\ lastOp' = [op |-> "url_upload", inst |-> img, call |-> r.call]
         /\ sub_id' = u.sub_id
         /\ IF u.exc # None THEN Dies(u.pc, u.exc)
            ELSE pc' = "job_status" /\ UNCHANGED raised
    /\ UNCHANGED <<prog, pure, plot, img, session, job_id, polls, job_stat, outcome>>


\* Client.job_status, lines 229-238: the six result requests, in this order.
Artifacts ==
    <<"jobs/ID/calibration", "jobs/ID/tags", "jobs/ID/machine_tags",
      "jobs/ID/objects_in_field", "jobs/ID/annotations", "jobs/ID/info">>

ArtifactServices == {Artifacts[k] : k \in 1 .. Len(Artifacts)}

\* The request that follows service a in job_status, or the return of the method.
after_artifact(a) ==
    LET k == CHOOSE n \in 1 .. Len(Artifacts) : Artifacts[n] = a IN
    IF k < Len(Artifacts) THEN Artifacts[k + 1] ELSE "returned"

\* job_status fetching the results on every status but 'failure'.
job_status_fetches_unless_failure(stat) == stat # "failure"

\* Client.job_status, line 228: the results are fetched if stat == 'success'.
job_status_fetches(stat) == stat = "success"

\* run_client, lines 410-411, and Client.job_status, lines 221-228 and 239
\* (justdict=False): the status request, then the results or the return of stat.
rc_job_status ==
    /\ prog = "results" /\ pc = "job_status"
    /\ \E resp \in Responses(JobBodies) :
         LET r == send_request(session[img], defaultArgs, resp)
             result == run_client_stat(r.call)
             stat == get(result.value, "status", None)
         IN
         /\ ClientSends(img, "jobs/ID", r, NoFile, resp, TRUE)
         /\ lastOp' = [op |-> "job_status", inst |-> img, call |-> result]
         /\ IF result.outcome = "raise"
            THEN Dies("uncaught", result.exc) /\ UNCHANGED job_stat
            ELSE /\ job_stat' = stat
                 /\ pc' = IF job_status_fetches(stat) THEN Artifacts[1] ELSE "returned"
                 /\ UNCHANGED raised
    /\ UNCHANGED <<prog, pure, plot, img, session, sub_id, job_id, polls, outcome>>

\* Client.job_status, lines 229-238: one of the six result requests.  Its result
\* is only printed; an exception of send_request leaves job_status and run_client.
job_status_fetch ==
    /\ prog = "results" /\ pc \in ArtifactServices
    /\ \E resp \in Responses(ResultBodies) :
         LET r == send_request(session[img], defaultArgs, resp) IN
         /\ ClientSends(img, pc, r, NoFile, resp, TRUE)
         /\ lastOp' = [op |-> "job_status", inst |-> img, call |-> r.call]
         /\ IF r.call.outcome = "raise" THEN Dies("uncaught", r.call.exc)
            ELSE pc' = after_artifact(pc) /\ UNCHANGED raised
    /\ UNCHANGED <<prog, pure, plot, img, session, perImage, outcome>>

(* ----------------- astrometry_solver.main: the batch loop ------------- *)

\* main, lines 157-158: the exception is printed and the loop goes on.
Caught(exc) ==
    /\ pc' = "next"
    /\ raised' = [raised EXCEPT ![img] = exc]

\* upload_image, lines 27-28: login when no session is stored.
main_login ==
    /\ prog = "solver" /\ pc = "upload" /\ ~truthy(session[1])
    /\ \E resp \in Responses(LoginBodies) :
         LET l == AstrometrySolver_login(session[1], resp) IN
         /\ SolverSends("login", "POST", ("apikey" :> ApiKey), FALSE, resp, l.call)
         /\ session' = [session EXCEPT ![1] = l.session]
         /\ lastOp' = [op |-> "login", inst |-> 1, call |-> l.call]
         /\ IF l.call.outcome = "raise" THEN Caught(l.call.exc)
            ELSE pc' = "upload_post" /\ UNCHANGED raised
    /\ UNCHANGED <<prog, pure, plot, img, perImage, outcome>>

\* upload_image, lines 30-47: the multipart POST with the session in request-json.
main_upload ==
    /\ prog = "solver"
    /\ \/ pc = "upload" /\ truthy(session[1])
       \/ pc = "upload_post"
    /\ \E resp \in Responses(UploadBodies) :
         LET u == upload_image_reply(resp) IN
         /\ SolverSends("upload", "POST", ("session" :> session[1]) @@ get_upload_args,
                        TRUE, resp, u.call)
         /\ lastOp' = [op |-> "upload_image", inst |-> 1, call |-> u.call]
         /\ sub_id' = u.sub_id
         /\ IF u.call.outcome = "raise" THEN Caught(u.call.exc)
            ELSE pc' = "wait_submission" /\ UNCHANGED raised
    /\ UNCHANGED <<prog, pure, plot, img, session, job_id, polls, job_stat, outcome>>

\* wait_for_submission, one poll, and main's lines 134-139 on its return.
main_wait_submission_poll(forever) ==
    /\ prog = "solver" /\ pc = "wait_submission"
    /\ PollOn(forever)
    /\ \E resp \in Responses(SubBodies) :
         LET w == wait_for_submission(resp) IN
         /\ SolverSends("submissions/ID", "GET", EmptyDict, FALSE, resp, w.call)
         /\ lastOp' = [op |-> "wait_for_submission", inst |-> 1, call |-> w.call]
         /\ CASE w.kind = "raise" ->
                   /\ Caught(w.call.exc)
                   /\ polls' = Polled
                   /\ UNCHANGED <<job_id, outcome>>
              [] w.kind = "return" /\ w.job_ids = <<>> ->
                   /\ pc' = "next"
                   /\ outcome' = [outcome EXCEPT ![img] = "SUBMISSION_EMPTY"]
                   /\ polls' = Polled
                   /\ UNCHANGED <<job_id, raised>>
              [] w.kind = "return" /\ w.job_ids # <<>> ->
                   /\ pc' = "wait_job"
                   /\ job_id' = w.job_ids[1]
                   /\ polls' = 0
                   /\ UNCHANGED <<outcome, raised>>
              [] OTHER ->
                   /\ polls' = Polled
                   /\ UNCHANGED <<pc, job_id, outcome, raised>>
    /\ UNCHANGED <<prog, pure, plot, img, session, sub_id, job_stat>>

main_wait_submission == main_wait_submission_poll(FALSE)

main_wait_submission_forever == main_wait_submission_poll(TRUE)

\* wait_for_job, one poll, and main's line 142 on its return.
main_wait_job_poll(forever) ==
    /\ prog = "solver" /\ pc = "wait_job"
    /\ PollOn(forever)
    /\ \E resp \in Responses(JobBodies) :
         LET w == wait_for_job(resp) IN
         /\ SolverSends("jobs/ID", "GET", EmptyDict, FALSE, resp, w.call)
         /\ lastOp' = [op |-> "wait_for_job", inst |-> 1, call |-> w.call]
         /\ polls' = Polled
         /\ job_stat' = IF w.kind = "raise" THEN job_stat
                        ELSE get(w.call.value, "status", None)
         /\ CASE w.kind = "raise" -> Caught(w.call.exc) /\ UNCHANGED outcome
              [] w.kind = "True" ->
                   /\ pc' = "get_job_info"
                   /\ outcome' = [outcome EXCEPT ![img] = "JOB_SUCCEEDED"]
                   /\ UNCHANGED raised
              [] w.kind = "False" ->
                   /\ pc' = "next"
                   /\ outcome' = [outcome EXCEPT ![img] = "JOB_FAILED"]
                   /\ UNCHANGED raised
              [] OTHER -> UNCHANGED <<pc, outcome, raised>>
    /\ UNCHANGED <<prog, pure, plot, img, session, sub_id, job_id>>

main_wait_job == main_wait_job_poll(FALSE)

main_wait_job_forever == main_wait_job_poll(TRUE)

\* main, lines 143-155: the calibration is fetched and saved.
main_get_job_info ==
    /\ prog = "solver" /\ pc = "get_job_info"
    /\ \E resp \in Responses(ResultBodies) :
         LET c == get_job_info(resp) IN
         /\ SolverSends("jobs/ID/calibration", "GET", EmptyDict, FALSE, resp, c)
         /\ lastOp' = [op |-> "get_job_info", inst |-> 1, call |-> c]
         /\ IF c.outcome = "raise" THEN Caught(c.exc)
            ELSE pc' = "next" /\ UNCHANGED raised
    /\ UNCHANGED <<prog, pure, plot, img, session, perImage, outcome>>

\* main, line 128: the for loop takes the next image, or ends.
main_next ==
    /\ prog = "solver" /\ pc = "next"
    /\ IF img < NumImages
       THEN /\ img' = img + 1
            /\ pc' = "upload"
            /\ sub_id' = None /\ job_id' = None /\ polls' = 0 /\ job_stat' = None
       ELSE pc' = "done" /\ UNCHANGED <<img, perImage>>
    /\ UNCHANGED <<prog, pure, plot, session, defaultArgs, lastReq, request, lastResp, lastCall,
                   lastOp,
                   outcome, raised>>

(* --------------------------- specification ---------------------------- *)

Next ==
    \/ \E i \in Inst : Call_login(i)
    \/ \E i \in Inst : Call_myjobs(i)
    \/ \E i \in Inst : Call_sub_status(i)
    \/ \E i \in Inst : Call_job_status(i)
    \/ \E i \in Inst : Call_upload(i)
    \/ rc_login
    \/ rc_upload
    \/ rc_wait_submission
    \/ rc_wait_job
    \/ rc_retrieve
    \/ rc_annotate
    \/ rc_sub_status
    \/ rc_next
    \/ rc_url_upload
    \/ rc_job_status
    \/ job_status_fetch
    \/ main_login
    \/ main_upload
    \/ main_wait_submission
    \/ main_wait_job
    \/ main_get_job_info
    \/ main_next

Spec == Init /\ [][Next]_vars

\* The two polling scripts with their loops unbounded, as in the code.  Each
\* script is sequential and each request is answered, so the script always takes
\* its next step: weak fairness of the next-state action.
LiveInit == Init /\ prog \in {"solver", "client"}

LiveNext ==
    \/ rc_login
    \/ rc_upload
    \/ rc_wait_submission_forever
    \/ rc_wait_job_forever
    \/ rc_retrieve
    \/ rc_annotate
    \/ rc_sub_status
    \/ rc_next
    \/ main_login
    \/ main_upload
    \/ main_wait_submission_forever
    \/ main_wait_job_forever
    \/ main_get_job_info
    \/ main_next

LiveSpec == LiveInit /\ [][LiveNext]_vars /\ WF_vars(LiveNext)

(* ------------------- functions called on their own ------------------- *)

\* Longest name given to normalize_name.
MaxLen == 3

\* The characters of those names: the Greek lowercase alpha and eta, the final
\* sigma (U+03C2), the capital omega (U+03A9), a Latin letter, a space, a tab.
NameChars == {"u03b1", "u03b7", "u03c2", "u03a9", "a", " ", "\t"}

Names == UNION {[1 .. n -> NameChars] : n \in 0 .. MaxLen}

normalize_name_call ==
    /\ prog = "normalize_name" /\ pc = "call"
    /\ ret' = normalize_name(arg)
    /\ pc' = "returned"
    /\ UNCHANGED <<prog, orch, arg, plot>>

\* Longest annotation list.
MaxAnn == 2

\* An annotation of the JSON file: its aliases and its pixel position.
ann(names, x, y) == ("names" :> names) @@ ("pixelx" :> x) @@ ("pixely" :> y)

\* The Greek letter g followed by the text s.
greek(g, s) == <<g>> \o letters(s)

\* A star of the JSON file.
bright_star(names, x, y) == ann(names, x, y) @@ ("type" :> "bright")

\* The annotations of the model: beta Ori (Rigel), eta Ori, delta Ori with its
\* proper name first, Theta Ori spelled in Latin, one star named both nu Ori and
\* chi2 Ori, a nebula without the key 'names', and an object without 'pixelx'.
Stars ==
    {bright_star(<<greek("u03b2", " Ori"), letters("Rigel")>>, 0, 0),
     bright_star(<<greek("u03b7", " Ori")>>, 36, 48),
     bright_star(<<letters("Mintaka"), greek("u03b4", " Ori")>>, 72, 96),
     bright_star(<<letters("Theta Ori")>>, 36, 48),
     bright_star(<<greek("u03bd", " Ori"), greek("u03c7", "2 Ori")>>, 0, 0),
     ("pixelx" :> 0) @@ ("pixely" :> 0) @@ ("type" :> "ngc") @@ ("radius" :> 12),
     ("names" :> <<letters("Rigel")>>) @@ ("pixely" :> 0)}

AnnotationLists == UNION {[1 .. n -> Stars] : n \in 0 .. MaxAnn}

\* An object of the JSON file at pixel (20, 30), with the keys given.
object(keys) == ("pixelx" :> 20) @@ ("pixely" :> 30) @@ keys

\* Objects of every type tag (ngc, ic, bright, another tag, none), with a radius
\* above, at and below 5, of 0, or without one; with two aliases, with an empty
\* alias list, or without the key 'names'.
Objects ==
    {object(("type" :> "ngc") @@ ("radius" :> 12)
              @@ ("names" :> <<letters("M 42"), letters("NGC 1976")>>)),
     object(("type" :> "ngc") @@ ("radius" :> 5) @@ ("names" :> <<letters("NGC 1976")>>)),
     object(("type" :> "ic") @@ ("names" :> <<>>)),
     object(("type" :> "ic") @@ ("radius" :> 3)),
     object(("type" :> "bright") @@ ("radius" :> 12) @@ ("names" :> <<letters("Rigel")>>)),
     object(("type" :> "bright") @@ ("radius" :> 0) @@ ("names" :> <<letters("Rigel")>>)),
     object(("type" :> "hd") @@ ("radius" :> 0) @@ ("names" :> <<>>)),
     object(("radius" :> 12) @@ ("names" :> <<letters("M 42")>>))}

ObjectLists == UNION {[1 .. n -> Objects] : n \in 1 .. MaxAnn}

\* The patterns of the catalog pairs.
Patterns ==
    {CONSTELLATION_LINES_Chi2[k][e] : k \in 1 .. Len(CONSTELLATION_LINES_Chi2), e \in 1 .. 2}

\* Texts that follow a Greek letter in an alias.
Suffixes == {" Ori", " UMa", "2 Ori", "  Ori", " Ori "}

\* The arguments of find_star_in_annotations for the pattern 'N s' and an
\* annotation whose only alias is 'g s', N being the Latin name of g.
greek_alias(g, s) ==
    [star_name_pattern |-> english_of(g) \o letters(s),
     annotations |-> <<ann(<<greek(g, s)>>, 0, 0)>>]

\* The arguments for a pattern and an annotation with one alias.
one_alias(pattern, alias) ==
    [star_name_pattern |-> letters(pattern), annotations |-> <<ann(<<alias>>, 0, 0)>>]

FindArgs ==
    {[star_name_pattern |-> letters(p), annotations |-> a] :
        p \in Patterns, a \in AnnotationLists}
      \cup {greek_alias(g, s) : g \in GreekLetters, s \in Suffixes}
      \cup {one_alias("Eta Ori", letters("Theta Ori")),
            one_alias("Eta Ori", greek("u03b8", " Ori")),
            one_alias("Eta Ori", letters("Eta Orionis"))}

find_star_in_annotations_call ==
    /\ prog = "find_star_in_annotations" /\ pc = "call"
    /\ ret' = find_star_in_annotations(arg.star_name_pattern, arg.annotations)
    /\ pc' = "returned"
    /\ UNCHANGED <<prog, orch, arg, plot>>

\* The pixel scales: none, 1 and 3 degrees per pixel.
Scales == {NoScale, 1, 3}

\* annotate_image, lines 74-105: the shapes and names of the annotations.
annotate_markers ==
    /\ prog = "annotate_image" /\ pc = "call"
    /\ LET m == plot_annotations(annotations) IN
       /\ overlay' = overlay \o m.added
       /\ pc' = IF m.raises THEN "raised" ELSE "edges"
    /\ UNCHANGED <<prog, orch, pure, annotations, deg_per_pixel, lines, edge>>

\* annotate_image, lines 113-150: one pair of the catalog.
annotate_edge ==
    /\ prog = "annotate_image" /\ pc = "edges" /\ edge < Len(lines)
    /\ LET k == edge + 1
           e == plot_edge(k, lines[k][1], lines[k][2], annotations, deg_per_pixel)
       IN
       /\ overlay' = overlay \o e.added
       /\ edge' = k
       /\ pc' = IF e.raises THEN "raised" ELSE "edges"
    /\ UNCHANGED <<prog, orch, pure, annotations, deg_per_pixel, lines>>

\* annotate_image, lines 155-159: the figure is saved.
annotate_save ==
    /\ prog = "annotate_image" /\ pc = "edges" /\ edge = Len(lines)
    /\ pc' = "returned"
    /\ UNCHANGED <<prog, orch, pure, plot>>

\* The distances and angles given to the law of cosines.
Distances == {100, 300, 400}

dist_ly_call ==
    /\ prog = "dist_ly" /\ pc = "call"
    /\ ret' = dist_ly(arg.d1, arg.d2, arg.dist_deg)
    /\ pc' = "returned"
    /\ UNCHANGED <<prog, orch, arg, plot>>

\* The keyword arguments given to _get_upload_args: some recognized options
\* (one of each type) and a keyword that is not an option.
KwargKeys ==
    {"allow_commercial_use", "scale_units", "scale_lower", "parity", "crpix_center",
     "bogus"}

KwargValues == {pyval("str", "2"), pyval("str", "x"), pyval("float", "1.5")}

Kwargs == UNION {[keys -> KwargValues] : keys \in SUBSET KwargKeys}

get_upload_args_call ==
    /\ prog = "get_upload_args" /\ pc = "call"
    /\ ret' = Client_get_upload_args(arg)
    /\ pc' = "returned"
    /\ UNCHANGED <<prog, orch, arg, plot>>

CallInit ==
    /\ prog \in {"normalize_name", "find_star_in_annotations", "annotate_image", "dist_ly",
                 "get_upload_args"}
    /\ pc = "call"
    /\ Unsent
    /\ ret = None
    /\ \/ prog = "normalize_name" /\ arg \in Names /\ NoPlot
       \/ prog = "find_star_in_annotations" /\ arg \in FindArgs /\ NoPlot
       \/ /\ prog = "annotate_image"
          /\ arg = None
          /\ annotations \in AnnotationLists \cup ObjectLists
          /\ deg_per_pixel \in Scales
          /\ lines \in {CONSTELLATION_LINES, CONSTELLATION_LINES_Chi2}
          /\ edge = 0
          /\ overlay = <<>>
       \/ /\ prog = "dist_ly"
          /\ arg \in [d1 : Distances, d2 : Distances, dist_deg : Angles \ {360}]
          /\ NoPlot
       \/ prog = "get_upload_args" /\ arg \in Kwargs /\ NoPlot

CallNext ==
    \/ normalize_name_call
    \/ find_star_in_annotations_call
    \/ annotate_markers
    \/ annotate_edge
    \/ annotate_save
    \/ dist_ly_call
    \/ get_upload_args_call

CallSpec == CallInit /\ [][CallNext]_vars

(* ------------------------------ claims -------------------------------- *)

\* The script is one of the two polling programs.
Polling == prog \in {"solver", "client"}

\* The last exchange was a poll of the submission wait loop of this image.
SubPolled ==
    /\ Polling
    /\ lastReq.img = img
    /\ lastReq.service = "submissions/ID"
    /\ outcome[img] \notin {"JOB_SUCCEEDED", "JOB_FAILED"}

\* The last exchange was a poll of the job wait loop of this image.
JobPolled == Polling /\ lastReq.img = img /\ lastReq.service = "jobs/ID"

\* The response reached the poller as a JSON object (Client reads no body of a
\* non-2xx response).
Received(resp) == resp.parses /\ (prog = "client" => resp.status_code = 200)

ProcessingFinished(resp) ==
    resp.parses /\ get(resp.body, "processing_finished", None) = JTrue

JobsOf(resp) == get(resp.body, "jobs", <<>>)

HasNonNull(l) == \E i \in 1 .. Len(l) : l[i] # None

FirstNonNull(l) ==
    l[CHOOSE i \in 1 .. Len(l) : l[i] # None /\ \A k \in 1 .. (i - 1) : l[k] = None]

StatusOf(resp) == IF resp.parses THEN get(resp.body, "status", "absent") ELSE "unparseable"

\* The script has just selected a job: it stands at the job wait loop before
\* its first poll, and lastResp is the submission status that selected the job.
JustSelected == Polling /\ pc = "wait_job" /\ polls = 0

\* C1: a job id is selected only on a submission-status response that reports
\* processing_finished = true.
C1_SelectedOnlyAfterFinished ==
    JustSelected => ProcessingFinished(lastResp)

\* C2: a finished submission whose job list is empty or all null ends the poll
\* in SUBMISSION_EMPTY: no exception, no further poll.
C2_FinishedEmptyIsTerminal ==
    (SubPolled /\ Received(lastResp) /\ ProcessingFinished(lastResp)
       /\ "jobs" \in DOMAIN lastResp.body /\ ~HasNonNull(JobsOf(lastResp)))
      => (outcome[img] = "SUBMISSION_EMPTY" /\ pc = "next" /\ raised[img] = None)

\* C3: for a finished submission the job polled is the first non-null entry of
\* its list, and SUBMISSION_EMPTY is reached only when there is no such entry.
C3_FirstNonNullSelected ==
    /\ (JustSelected /\ ProcessingFinished(lastResp))
         => (HasNonNull(JobsOf(lastResp)) /\ job_id = FirstNonNull(JobsOf(lastResp)))
    /\ (SubPolled /\ outcome[img] = "SUBMISSION_EMPTY")
         => ~HasNonNull(JobsOf(lastResp))

\* C4: a failed job or an empty submission is a result of the current image:
\* it raises nothing and does not end the process, so the batch goes on.
C4_FailureIsResultNotExit ==
    \A i \in Images :
        outcome[i] \in {"JOB_FAILED", "SUBMISSION_EMPTY"}
          => (raised[i] = None /\ pc \notin {"sys_exit", "uncaught"})

\* C5 as stated: on a job-status response the poll leaves JOB_PENDING only when
\* the status is success or failure, reports success (failure) iff the status
\* was success (failure), and polls again on every other status.
C5_LeavesOnlyOnTerminalStatus ==
    (JobPolled /\ Received(lastResp)) =>
      /\ (pc # "wait_job") <=> (StatusOf(lastResp) \in {"success", "failure"})
      /\ (outcome[img] = "JOB_SUCCEEDED") <=> (StatusOf(lastResp) = "success")
      /\ (outcome[img] = "JOB_FAILED") <=> (StatusOf(lastResp) = "failure")

C5_Outcomes ==
    JobPolled =>
      /\ (outcome[img] = "JOB_SUCCEEDED")
           <=> (Received(lastResp) /\ StatusOf(lastResp) = "success")
      /\ (outcome[img] = "JOB_FAILED")
           <=> (Received(lastResp) /\ StatusOf(lastResp) = "failure")
      /\ (Received(lastResp) /\ StatusOf(lastResp) \in {"queued", "solving", "absent"})
           => (pc = "wait_job" /\ raised[img] = None)
      /\ (pc # "wait_job" /\ outcome[img] = "none") => raised[img] # None

C5_NoPollAfterTerminal ==
    (Polling /\ outcome[img] \in {"JOB_SUCCEEDED", "JOB_FAILED"} /\ img' = img)
      => ~(lastReq'.service = "jobs/ID" /\ polls' # polls)

\* C5 as amended: the job poll reports an outcome only on status success or
\* failure (success iff success, failure iff failure), polls again on queued,
\* solving or an absent status, otherwise leaves the loop only by a raised
\* exception, and never polls the job again after a terminal outcome.
C5_OutcomeOnlyOnTerminalStatus ==
    [](C5_Outcomes) /\ [][C5_NoPollAfterTerminal]_vars

\* C5 witness: a job reported failed after the loop polled more than once.
C5_Witness ==
    JobPolled /\ prog = "solver" /\ polls >= 2 /\ outcome[img] = "JOB_FAILED" /\ pc = "next"

\* C6: once an instance holds a session, every request it sends other than a
\* login carries that session under the 'session' key.
C6_SessionInEveryRequest ==
    (lastReq.service \notin {"none", "login"} /\ truthy(lastReq.sess))
      => ("session" \in DOMAIN lastReq.json /\ lastReq.json["session"] = lastReq.sess)

\* C7: a request carries no session but the sender's own: a token obtained by
\* one instance never appears in a request of another.
C7_NoForeignSession ==
    ("session" \in DOMAIN lastReq.json) => lastReq.json["session"] = lastReq.sess

\* The last exchange went through Client.send_request.
ViaSendRequest == prog \in {"client", "two", "results"} /\ lastReq.service # "none"

\* C8: on a non-success HTTP status send_request writes the body to err.html and
\* fails with HTTPError; it does not return.
C8_HttpErrorRaises ==
    (ViaSendRequest /\ lastResp.status_code # 200)
      => (lastCall.err_html /\ lastCall.outcome = "raise" /\ lastCall.exc = "HTTPError")

\* C9: a 200 response whose body is not JSON makes send_request fail with
\* MalformedResponse.
C9_MalformedRaisesMalformedResponse ==
    (ViaSendRequest /\ lastResp.status_code = 200 /\ ~lastResp.parses)
      => (lastCall.outcome = "raise" /\ lastCall.exc = "MalformedResponse")

\* The last exchange was a send_request call or a status poll of AstrometrySolver.
TransportCall ==
    \/ ViaSendRequest
    \/ prog = "solver" /\ lastOp.op \in {"wait_for_submission", "wait_for_job"}

\* C10: a parsed response with status 'error' makes the call fail with a server
\* error carrying errormessage (or the placeholder); any other parsed response
\* is returned unchanged.
C10_ServerErrorRaises ==
    (TransportCall /\ lastResp.status_code = 200 /\ lastResp.parses)
      => IF StatusOf(lastResp) = "error"
         THEN /\ lastCall.outcome = "raise"
              /\ lastCall.exc = "RequestError"
              /\ lastCall.msg = get(lastResp.body, "errormessage", "(none)")
         ELSE lastCall = Return(lastResp.body)

\* The last method call was a login whose response reached the instance.
LoginAnswered ==
    /\ lastOp.op = "login" /\ lastReq.service = "login"
    /\ lastResp.status_code = 200 /\ lastResp.parses

\* The session token carried by the last response (None when it carries none).
TokenOf(resp) == get(resp.body, "session", None)

\* C11: a login returns only on a response with a non-empty session token; on a
\* response whose token is absent, null or empty it raises and the stored token
\* is the one held before the call.
C11_LoginNeedsToken ==
    LoginAnswered =>
      /\ lastOp.call.outcome = "return" => truthy(TokenOf(lastResp))
      /\ ~truthy(TokenOf(lastResp))
           => (lastOp.call.outcome = "raise" /\ session[lastReq.inst] = lastReq.sess)

\* C12: the stored session token of every instance is unset or a non-empty
\* string.
C12_TokenUnsetOrNonEmpty ==
    \A i \in Inst : session[i] = None \/ truthy(session[i])

\* C13: a login request carries no 'session' key, on a first login and on a
\* login of an instance that already holds a token.
C13_LoginCarriesNoSession ==
    lastReq.service = "login" => "session" \notin DOMAIN lastReq.json

\* A request for a result of a job (calibration, tags, ..., job info).
ResultFetch == lastReq.service \in ArtifactServices /\ lastReq.img = img

\* The answer to the last result request was an HTTP error, a server error or
\* a body that is not JSON.
FetchFailed ==
    \/ lastResp.status_code # 200
    \/ ~lastResp.parses
    \/ StatusOf(lastResp) = "error"

\* C14: in Client.job_status a failed result request does not abort the rest:
\* the next request of the list is made, or the method returns after the last.
C14_FetchIsBestEffort ==
    (prog = "results" /\ ResultFetch /\ FetchFailed)
      => (pc = after_artifact(lastReq.service) /\ raised[img] = None)

C17_SendRequestLeavesArgs ==
    ViaSendRequest => lastReq.args = lastReq.passed

\* The script stands in one of its two wait loops.
Waiting == Polling /\ pc \in {"wait_submission", "wait_job"}

\* The last answer of the service, received by the poller, reports the
\* submission finished (to a submission poll) or the job in a terminal status
\* (to a job poll).
Settled ==
    /\ lastReq.img = img /\ Received(lastResp)
    /\ \/ lastReq.service = "submissions/ID" /\ ProcessingFinished(lastResp)
       \/ lastReq.service = "jobs/ID" /\ StatusOf(lastResp) \in {"success", "failure"}

\* The last answer, received by the poller, reports the submission not finished
\* or the job queued or solving.
Pending ==
    /\ lastReq.img = img /\ Received(lastResp) /\ StatusOf(lastResp) # "error"
    /\ \/ lastReq.service = "submissions/ID" /\ ~ProcessingFinished(lastResp)
                                              /\ outcome[img] = "none"
       \/ lastReq.service = "jobs/ID" /\ StatusOf(lastResp) \in {"queued", "solving"}

\* C16: the poller does not wait for ever once the service keeps reporting the
\* submission finished and the job terminal (it ends in JOB_SUCCEEDED, JOB_FAILED
\* or SUBMISSION_EMPTY), and while the service reports the submission not
\* finished or the job not terminal it stays in its loops and raises nothing.
C16_PollEndsOnceSettled ==
    /\ ~<>[](Waiting /\ Settled)
    /\ [](Pending => (Waiting /\ raised[img] = None))

(* ------ the receiving side: decoders of the formats of a request ------- *)

\* Every string that is a key or a value of an args dict.
Strings ==
    {KeyOrder[i] : i \in 1 .. Len(KeyOrder)} \cup Tokens \cup Urls \cup {ApiKey, "d", "y"}

Undecodable == "?"

\* The string whose characters are the text.
unchars(text) ==
    IF \E v \in Strings : chars(v) = text
    THEN CHOOSE v \in Strings : chars(v) = text
    ELSE Undecodable

\* The token at position i of a text ("" past its end).
at(text, i) == IF i \in 1 .. Len(text) THEN text[i] ELSE ""

NotJson == [ok |-> FALSE, value |-> EmptyDict]

RECURSIVE read_string(_, _, _)
\* json.loads inside a string literal, from position i to the closing quote.
read_string(text, i, acc) ==
    IF i > Len(text) THEN [ok |-> FALSE, s |-> acc, next |-> i]
    ELSE IF text[i] = "\"" THEN [ok |-> TRUE, s |-> acc, next |-> i + 1]
    ELSE IF text[i] = "\\"
         THEN IF i + 1 > Len(text) THEN [ok |-> FALSE, s |-> acc, next |-> i]
              ELSE read_string(text, i + 2, Append(acc, text[i + 1]))
         ELSE read_string(text, i + 1, Append(acc, text[i]))

RECURSIVE read_members(_, _, _)
\* json.loads inside an object, at the opening quote of a key.
read_members(text, i, d) ==
    IF at(text, i) # "\"" THEN NotJson
    ELSE LET k == read_string(text, i + 1, <<>>) IN
         IF ~k.ok \/ at(text, k.next) # ":" \/ at(text, k.next + 1) # " "
                \/ at(text, k.next + 2) # "\""
         THEN NotJson
         ELSE LET v == read_string(text, k.next + 3, <<>>)
                  d1 == update(d, unchars(k.s), unchars(v.s))
              IN
              IF ~v.ok THEN NotJson
              ELSE IF at(text, v.next) = "}" /\ v.next = Len(text)
                   THEN [ok |-> TRUE, value |-> d1]
              ELSE IF at(text, v.next) = "," /\ at(text, v.next + 1) = " "
                   THEN read_members(text, v.next + 2, d1)
              ELSE NotJson

\* json.loads of the text of an object of strings.
json_loads(text) ==
    IF text = <<"{", "}">> THEN [ok |-> TRUE, value |-> EmptyDict]
    ELSE IF at(text, 1) = "{" THEN read_members(text, 2, EmptyDict)
    ELSE NotJson

\* urllib.parse.unquote_plus: '+' is a space, %XX is its character.
unquote_plus(text) ==
    [i \in 1 .. Len(text) |->
        IF text[i] = "+" THEN " "
        ELSE IF \E c \in DOMAIN Pct : Pct[c] = text[i]
             THEN CHOOSE c \in DOMAIN Pct : Pct[c] = text[i]
             ELSE text[i]]

\* The first position of a token in a text (0 when it is not there).
find(text, tok) ==
    IF \E i \in 1 .. Len(text) : text[i] = tok
    THEN CHOOSE i \in 1 .. Len(text) : text[i] = tok /\ \A k \in 1 .. (i - 1) : text[k] # tok
    ELSE 0

RECURSIVE split(_, _)
\* text.split(sep)
split(text, sep) ==
    LET i == find(text, sep) IN
    IF i = 0 THEN <<text>>
    ELSE <<SubSeq(text, 1, i - 1)>> \o split(SubSeq(text, i + 1, Len(text)), sep)

\* urllib.parse.parse_qsl: the fields name=value separated by '&', unquoted.
parse_qsl(data) ==
    LET fields == split(data, "&")
        field(f) == LET i == find(f, "=") IN
                    IF i = 0 THEN [name |-> unquote_plus(f), value |-> <<>>]
                    ELSE [name |-> unquote_plus(SubSeq(f, 1, i - 1)),
                          value |-> unquote_plus(SubSeq(f, i + 1, Len(f)))]
    IN [n \in 1 .. Len(fields) |-> field(fields[n])]

\* multipart/form-data: the positions of the lines that start with '--boundary'.
Delimiters(data, boundary) ==
    {i \in 1 .. (Len(data) - 1) :
        /\ data[i] = "--" /\ data[i + 1] = boundary
        /\ (i = 1 \/ data[i - 1] \in {"\n", "\r\n"})}

\* The headers and the body of a part: the blank line separates them.
part_of(text) ==
    LET blank == {j \in 1 .. (Len(text) - 1) : text[j] = "\r\n" /\ text[j + 1] = "\r\n"} IN
    IF blank = {} THEN [headers |-> text, body |-> <<>>]
    ELSE LET j == CHOOSE x \in blank : \A y \in blank : x <= y IN
         [headers |-> SubSeq(text, 1, j - 1), body |-> SubSeq(text, j + 2, Len(text))]

\* multipart/form-data decoding: the parts between the delimiter lines up to the
\* first closing line '--boundary--', and whether the data ends with that line.
decode_multipart(data, boundary) ==
    LET D == Delimiters(data, boundary)
        closes == {i \in D : at(data, i + 2) = "--"}
    IN
    IF closes = {} THEN [parts |-> <<>>, closed |-> FALSE]
    ELSE LET c == CHOOSE x \in closes : \A y \in closes : x <= y
             opens == {i \in D : i < c}
             nth(n) == CHOOSE i \in opens : Cardinality({j \in opens : j < i}) = n - 1
             next(i) == CHOOSE x \in D : x > i /\ \A y \in D : y > i => x <= y
         IN [parts |-> [n \in 1 .. Cardinality(opens) |->
                           part_of(SubSeq(data, nth(n) + 3, next(nth(n)) - 2))],
             closed |-> (c + 3 = Len(data) /\ data[c + 3] = "\n")]

\* The value of name="..." (of filename="...") in the headers of a part.
field_name(headers) == at(headers, find(headers, "Content-disposition: form-data; name=") + 2)

file_name(headers) == at(headers, find(headers, "; filename=") + 2)

\* The last exchange was a send_request with a file, without a file.
MultipartSent == ViaSendRequest /\ lastReq.multipart

PlainSent == ViaSendRequest /\ ~lastReq.multipart

\* The multipart data has exactly two parts, request-json then the file under
\* its name, each begun by the boundary of the header, and ends with the
\* closing line; the file part is the bytes of the file.
TwoPartBody ==
    LET m == decode_multipart(request.data, request.headers.boundary) IN
    /\ request.headers.content_type = "multipart/form-data"
    /\ m.closed /\ Len(m.parts) = 2
    /\ field_name(m.parts[1].headers) = "request-json"
    /\ field_name(m.parts[2].headers) = "file"
    /\ file_name(m.parts[2].headers) = lastReq.file_args.fn
    /\ m.parts[2].body = lastReq.file_args.bytes

\* The args object read back from the request-json part.
MultipartJson ==
    LET m == decode_multipart(request.data, request.headers.boundary) IN
    IF Len(m.parts) >= 1 THEN json_loads(m.parts[1].body) ELSE NotJson

\* C18: the multipart data of a request with a file decodes to two parts in
\* order, request-json and file, closed by the final boundary line; the first
\* gives back the args object that was passed, the second the bytes of the file.
C18_MultipartRoundTrip ==
    MultipartSent =>
      (TwoPartBody /\ MultipartJson = [ok |-> TRUE, value |-> lastReq.passed])

\* A token occurs in a text.
Occurs(tok, text) == \E i \in 1 .. Len(text) : text[i] = tok

\* C19: the boundary of a request with a file occurs neither in the JSON of its
\* args nor in the bytes of its file.
C19_BoundaryNotInBody ==
    MultipartSent =>
      /\ ~Occurs(request.headers.boundary, python2json(lastReq.args))
      /\ ~Occurs(request.headers.boundary, lastReq.file_args.bytes)

\* The args object read back from the form data of a request without a file.
PlainForm == parse_qsl(request.data)

PlainJson == json_loads(PlainForm[1].value)

OneFormField ==
    /\ request.headers = NoHeaders
    /\ Len(PlainForm) = 1 /\ PlainForm[1].name = <<"request-json">>

\* C20 as stated: the data of a request without a file is the one form field
\* request-json, without a content-type header, and decoding it gives back the
\* args object that was passed, with or without a stored session.
C20_PlainRoundTripOfPassedArgs ==
    PlainSent => (OneFormField /\ PlainJson = [ok |-> TRUE, value |-> lastReq.passed])

\* C20 as amended: the data of a request without a file is the one form field
\* request-json, without a content-type header, and decoding it gives back the
\* args that were passed with the stored session, if any, under 'session'.
C20_PlainRoundTripWithSession ==
    PlainSent =>
      /\ OneFormField
      /\ PlainJson = [ok |-> TRUE, value |-> inject_session(lastReq.sess, lastReq.passed)]

\* C20 witness: a url_upload of a URL with '&', '=' and '+' in it, sent by an
\* instance that holds a session, has been read back with the session.
C20_Witness ==
    /\ PlainSent /\ lastReq.service = "url_upload" /\ lastReq.sess \in Tokens
    /\ lastReq.passed["url"] = "http://h/q?a=b&c=d+e"
    /\ PlainJson.ok /\ PlainJson.value["url"] = "http://h/q?a=b&c=d+e"
    /\ PlainJson.value["session"] = lastReq.sess

(* ---------------- claims on the names and the overlay ------------------ *)

Returned(f) == prog = f /\ pc = "returned"

\* The lowercase letters of the Greek block: the 24 of the table and the final sigma.
GreekLowercase == GreekLetters \cup {"u03c2"}

\* The Greek codepoints of the model: the lowercase letters and the capital omega.
GreekBlock == GreekLowercase \cup {"u03a9"}

HasChar(text, set) == \E i \in 1 .. Len(text) : text[i] \in set

\* C21: normalizing a normalized name changes nothing:
\* normalize_name(normalize_name(x)) = normalize_name(x) for every name x over
\* Greek lowercase letters, Latin letters and whitespace.
C21_NormalizeIdempotent ==
    Returned("normalize_name") => normalize_name(ret) = ret

\* A name with a letter of the table and a tab has been normalized (to another text).
C21_Witness ==
    /\ Returned("normalize_name")
    /\ HasChar(arg, GreekLetters) /\ HasChar(arg, {"\t"})
    /\ ret # arg
    /\ normalize_name(ret) = ret

\* C22: when the input has a Greek lowercase letter, the output of
\* normalize_name has no Greek codepoint at all (no lowercase letter outside the
\* table such as the final sigma, no Greek uppercase letter either).
C22_NoGreekInOutput ==
    (Returned("normalize_name") /\ HasChar(arg, GreekLowercase))
        => ~HasChar(ret, GreekBlock)

\* The aliases of an annotation: star.get('names', []).
Aliases(star) == get(star, "names", <<>>)

\* Some alias of the annotation contains the pattern after normalization.
Matches(pattern, star) ==
    \E n \in 1 .. Len(Aliases(star)) : str_in(pattern, normalize_name(Aliases(star)[n]))

C23_FirstMatch ==
    Returned("find_star_in_annotations") =>
        LET p == arg.star_name_pattern
            a == arg.annotations
        IN
        /\ ret # NoStar =>
             /\ ret \in 1 .. Len(a)
             /\ Matches(p, a[ret])
             /\ \A j \in 1 .. (ret - 1) : ~Matches(p, a[j])
        /\ ret = NoStar <=> \A j \in 1 .. Len(a) : ~Matches(p, a[j])

\* C23: find_star_in_annotations returns the first annotation, in the order of
\* the list, one of whose aliases contains the pattern after normalization (no
\* alias of an earlier annotation contains it); it returns no annotation exactly
\* when no alias of any annotation contains the pattern; and the call leaves the
\* annotation list as it was.
C23_FirstMatchListUnchanged ==
    /\ [](C23_FirstMatch)
    /\ [][prog = "find_star_in_annotations" => arg'.annotations = arg.annotations]_vars

\* The second of two annotations with aliases was returned, matched by its
\* second alias.
C23_Witness ==
    /\ Returned("find_star_in_annotations")
    /\ ret = 2
    /\ Len(Aliases(arg.annotations[1])) > 0
    /\ Len(Aliases(arg.annotations[2])) = 2
    /\ ~str_in(arg.star_name_pattern, normalize_name(Aliases(arg.annotations[2])[1]))

\* C24 as stated: for every letter g of the table with Latin name N and every
\* suffix s, the annotation whose alias is 'g s' is resolved by the pattern 'N s'.
C24_GreekAliasResolved ==
    Returned("find_star_in_annotations") =>
        \A g \in GreekLetters, s \in Suffixes : arg = greek_alias(g, s) => ret = 1

\* A text that the replacement and the whitespace collapse leave as it is after
\* a letter: no letter of the table, no tab, no two spaces in a row, no space
\* at the end.
Clean(text) ==
    /\ ~HasChar(text, GreekLetters \cup {"\t"})
    /\ \A i \in 1 .. (Len(text) - 1) : ~(text[i] = " " /\ text[i + 1] = " ")
    /\ text # <<>> => text[Len(text)] # " "

\* C24: aliases are normalized before matching, the pattern is not: for every
\* letter g of the table with Latin name N and every suffix s without a table
\* letter and with whitespace only as single inner spaces, the annotation whose
\* alias is 'g s' is resolved by the pattern 'N s'; with repeated or trailing
\* whitespace in s it is not.
C24_CleanGreekAliasResolved ==
    Returned("find_star_in_annotations") =>
        \A g \in GreekLetters, s \in Suffixes :
            arg = greek_alias(g, s) => (ret = 1 <=> Clean(letters(s)))

\* The alias beta + ' Ori' was resolved by the pattern 'Beta Ori'.
C24_Witness ==
    /\ Returned("find_star_in_annotations")
    /\ arg = greek_alias("u03b2", " Ori")
    /\ ret = 1

\* The pattern 'Eta Ori' against an annotation whose only alias is 'Theta Ori',
\* or theta followed by ' Ori'.
EtaAgainstTheta ==
    {one_alias("Eta Ori", letters("Theta Ori")), one_alias("Eta Ori", greek("u03b8", " Ori"))}

\* C25 as stated: the pattern 'Eta Ori' matches an annotation whose only alias
\* is 'Theta Ori' (or theta followed by ' Ori'): that annotation is returned.
C25_EtaMatchesTheta ==
    (Returned("find_star_in_annotations") /\ arg \in EtaAgainstTheta) => ret = 1

\* C25: the containment is unanchored but case-sensitive: the pattern 'Eta Ori'
\* does not match an annotation whose only alias is 'Theta Ori' (or theta
\* followed by ' Ori'), no annotation is returned; it does match an annotation
\* whose only alias is the longer name 'Eta Orionis'.
C25_EtaDoesNotMatchTheta ==
    Returned("find_star_in_annotations") =>
        /\ arg \in EtaAgainstTheta => ret = NoStar
        /\ arg = one_alias("Eta Ori", letters("Eta Orionis")) => ret = 1

\* 'Eta Ori' was looked up against the alias theta + ' Ori' and nothing was returned.
C25_Witness ==
    /\ Returned("find_star_in_annotations")
    /\ arg = one_alias("Eta Ori", greek("u03b8", " Ori"))
    /\ ret = NoStar

Plotting == prog = "annotate_image"

\* Some alias of some annotation of the image contains the catalog pattern.
Resolves(star_pat) ==
    \E j \in 1 .. Len(annotations) : Matches(letters(star_pat), annotations[j])

BothResolve(k) == Resolves(lines[k][1]) /\ Resolves(lines[k][2])

\* The primitives of a kind ("line", "label") drawn for the k-th catalog pair.
Drawn(kind, k) ==
    {i \in 1 .. Len(overlay) : overlay[i].kind = kind /\ overlay[i].pair = k}

C26_EdgeOnlyWhenBothResolve ==
    Plotting =>
        /\ \A k \in 1 .. Len(lines) :
             /\ (Drawn("line", k) # {} \/ Drawn("label", k) # {}) => BothResolve(k)
             /\ Drawn("label", k) # {} => Drawn("line", k) # {}
             /\ (k <= edge /\ BothResolve(k)) => Cardinality(Drawn("line", k)) = 1
        /\ pc = "raised" => edge = 0

\* C26: a line segment and its label are added for a catalog pair only when
\* both patterns resolve to an annotation (and the line is added then); when
\* either is unresolved nothing is added for the pair, never a label without its
\* line; the loop goes on to the next pair and raises no error.
C26_NoPartialEdge ==
    /\ [](C26_EdgeOnlyWhenBothResolve)
    /\ [][(Plotting /\ pc = "edges" /\ edge < Len(lines))
             => (pc' = "edges" /\ edge' = edge + 1)]_vars

\* The first pair had one endpoint resolved and got nothing; the second pair
\* was drawn after it.
C26_Witness ==
    /\ Plotting /\ edge >= 2
    /\ Resolves(lines[1][2]) /\ ~Resolves(lines[1][1])
    /\ Drawn("line", 1) = {} /\ Drawn("label", 1) = {}
    /\ Drawn("line", 2) # {}

Known(star_pat) == star_pat \in DOMAIN STAR_DISTANCES_LY

\* The label has a part in light-years.
HasLy(text) == \E n \in 1 .. Len(text) : text[n].unit = "ly"

\* C27: for a resolved edge with a pixel scale, one label is added; it gives
\* the angular separation, and a separation in light-years exactly when both
\* catalog patterns have a distance in STAR_DISTANCES_LY (only the angular
\* separation otherwise); without a pixel scale no label is added, the line
\* segment still is.
C27_LabelParts ==
    Plotting =>
        \A k \in 1 .. edge :
            BothResolve(k) =>
                /\ Cardinality(Drawn("line", k)) = 1
                /\ IF deg_per_pixel # NoScale
                   THEN /\ Cardinality(Drawn("label", k)) = 1
                        /\ \A i \in Drawn("label", k) :
                             LET text == overlay[i].text IN
                             /\ text[1].unit = "deg"
                             /\ HasLy(text) <=> (Known(lines[k][1]) /\ Known(lines[k][2]))
                             /\ ~HasLy(text) => Len(text) = 1
                   ELSE Drawn("label", k) = {}

\* With a pixel scale, a resolved pair with a star of unknown distance got a
\* label with the angular separation alone.
C27_Witness ==
    /\ Plotting /\ deg_per_pixel # NoScale
    /\ \E k \in 1 .. edge :
         /\ BothResolve(k) /\ ~Known(lines[k][2])
         /\ \E i \in Drawn("label", k) : Len(overlay[i].text) = 1

\* C28: the law-of-cosines distance sqrt(d1^2 + d2^2 - 2*d1*d2*cos(theta)) is 0
\* for d1 = d2 = 100 and theta = 0 degrees, and 200 for d1 = d2 = 100 and
\* theta = 180 degrees.
C28_LawOfCosines ==
    Returned("dist_ly") =>
        /\ arg = [d1 |-> 100, d2 |-> 100, dist_deg |-> 0]
             => (ret = 0 /\ dist_ly_squared(100, 100, 0) = 0)
        /\ arg = [d1 |-> 100, d2 |-> 100, dist_deg |-> 180]
             => (ret = 200 /\ dist_ly_squared(100, 100, 180) = 200 * 200)

\* The distance was computed for d1 = d2 = 100 and 180 degrees.
C28_Witness ==
    /\ Returned("dist_ly")
    /\ arg = [d1 |-> 100, d2 |-> 100, dist_deg |-> 180]
    /\ ret = 200

\* The three options with a default, and the defaults.
Defaults ==
    ("allow_commercial_use" :> "d") @@ ("allow_modifications" :> "d")
      @@ ("publicly_visible" :> "y")

\* The recognized options and their declared types.
Recognized == {UploadOptions[k][1] : k \in 1 .. Len(UploadOptions)}

DeclaredType(key) ==
    UploadOptions[CHOOSE k \in 1 .. Len(UploadOptions) : UploadOptions[k][1] = key][3]

\* C29: the mapping _get_upload_args returns has allow_commercial_use = 'd',
\* allow_modifications = 'd' and publicly_visible = 'y' when the caller does not
\* supply them, has each other recognized option exactly when the caller
\* supplied it, every supplied option as a value of its declared type, and has
\* no key outside the recognized options.
C29_UploadArgs ==
    (Returned("get_upload_args") /\ ~ret.raises) =>
        /\ \A key \in DOMAIN Defaults :
             key \notin DOMAIN arg =>
                 (key \in DOMAIN ret.args /\ ret.args[key] = pyval("str", Defaults[key]))
        /\ \A key \in Recognized \ DOMAIN Defaults :
             key \in DOMAIN ret.args <=> key \in DOMAIN arg
        /\ \A key \in DOMAIN ret.args \cap DOMAIN arg :
             ret.args[key].typ = DeclaredType(key)
        /\ DOMAIN ret.args \subseteq Recognized

\* A call without allow_commercial_use, with scale_lower = '2' and with a
\* keyword that is not an option has returned.
C29_Witness ==
    /\ Returned("get_upload_args") /\ ~ret.raises
    /\ "allow_commercial_use" \notin DOMAIN arg
    /\ "bogus" \in DOMAIN arg
    /\ "scale_lower" \in DOMAIN arg /\ arg["scale_lower"] = pyval("str", "2")
    /\ ret.args["scale_lower"] = pyval("float", "2.0")
    /\ "parity" \notin DOMAIN ret.args

\* C30: the stored session token of an instance is written only by login:
\* every step that changes it is a login of that instance; every other
\* operation (requests, uploads, status polls, result fetches), returning or
\* raising, leaves it as it was.
C30_SessionWrittenOnlyByLogin ==
    [][\A i \in Inst :
          session'[i] # session[i] => (lastOp'.op = "login" /\ lastOp'.inst = i)]_vars

\* An operation other than login has failed on an instance that holds a token,
\* and the instance holds the token it sent.
C30_Witness ==
    /\ lastOp.op \notin {"none", "login"}
    /\ lastOp.call.outcome = "raise"
    /\ session[lastOp.inst] \in Tokens
    /\ lastReq.sess = session[lastOp.inst]

\* The marker loop of annotate_image has gone through all the annotations.
Marked == Plotting /\ pc \in {"edges", "returned"}

\* The shapes and the names drawn for the annotations (not the edge primitives).
Shapes == {i \in 1 .. Len(overlay) : overlay[i].kind \in {"circle", "scatter"}}

Texts == {i \in 1 .. Len(overlay) : overlay[i].kind = "text"}

\* The color and the marker that go with a type tag.
ColorOf(tag) ==
    IF tag \in {"ngc", "ic"} THEN "cyan" ELSE IF tag = "bright" THEN "yellow" ELSE "red"

MarkerOf(tag) ==
    IF tag \in {"ngc", "ic"} THEN "o" ELSE IF tag = "bright" THEN "*" ELSE "x"

\* C31: the overlay has one shape and one text label per annotation, in the
\* order of the list: the shape is a circle exactly when the radius is greater
\* than 5 (a missing radius counting as 0) and a point marker otherwise; the
\* color of both and the marker are those of the type tag (ngc or ic, bright,
\* any other or none); the text is the first alias, or 'Unknown' when there is
\* no alias.
C31_OneShapeOneLabel ==
    Marked =>
        /\ Cardinality(Shapes) = Len(annotations)
        /\ Cardinality(Texts) = Len(annotations)
        /\ \A j \in 1 .. Len(annotations) :
             LET a == annotations[j]
                 shape == overlay[2 * j - 1]
                 label == overlay[2 * j]
                 tag == get(a, "type", "unknown")
             IN
             /\ shape.kind = IF get(a, "radius", 0) > 5 THEN "circle" ELSE "scatter"
             /\ shape.x = a["pixelx"] /\ shape.y = a["pixely"]
             /\ shape.color = ColorOf(tag)
             /\ shape.kind = "scatter" => shape.marker = MarkerOf(tag)
             /\ label.kind = "text"
             /\ label.color = ColorOf(tag)
             /\ label.text = IF Len(Aliases(a)) > 0 THEN Aliases(a)[1]
                             ELSE letters("Unknown")

\* Two objects were drawn: a nebula of radius 12 as a circle named by its first
\* alias, and an object without radius and aliases as a marker named 'Unknown'.
C31_Witness ==
    /\ Marked /\ Len(annotations) = 2
    /\ get(annotations[1], "radius", 0) = 12 /\ Len(Aliases(annotations[1])) = 2
    /\ "radius" \notin DOMAIN annotations[2] /\ Aliases(annotations[2]) = <<>>
    /\ overlay[1].kind = "circle" /\ overlay[2].text = letters("M 42")
    /\ overlay[3].kind = "scatter" /\ overlay[4].text = letters("Unknown")

\* C32: the job id handed to the job-status poll is never null: whenever
\* astrometry_solver.main calls wait_for_job, and whenever run_client is in its
\* job poll loop, the job id is an id and not None.
C32_PolledJobIdNotNull ==
    (Polling /\ pc = "wait_job") => job_id \in JobIds

\* The job poll loop of run_client has polled the status of the selected job
\* and goes on polling it.
C32_Witness ==
    /\ prog = "client" /\ pc = "wait_job"
    /\ polls >= 1 /\ lastReq.service = "jobs/ID"
    /\ job_id \in JobIds


=============================================================================
